---- MODULE Spec2Model ----
(***************************************************************************)
(* A model of skorecard's bucketers (skorecard/bucketers/bucketers.py) and *)
(* of the two-stage BucketingProcess (skorecard/pipeline/                  *)
(* bucketing_process.py).                                                  *)
(*                                                                         *)
(* Numbers.  A value of a column is an integer or NaN.  A boundary of a    *)
(* numerical BucketMapping is the rational map[i] / den: every strategy    *)
(* produces boundaries with one common denominator (n_bins for the         *)
(* histogram and the quantiles, 2 for midpoints, 1 for observed values),   *)
(* so that a comparison  x <= boundary  is  den * x <= map[i].             *)
(***************************************************************************)
EXTENDS Integers, Sequences, FiniteSets, TLC

\* ------------------------------------------------------------------ bounds
\* Rows of a dataset.
NRows == 3
\* Largest n_bins / max_n_bins / max_n_categories a bucketer is built with.
MaxBins == 3

\* ------------------------------------------------------------ value domain
\* NaN, the null value of a column (np.nan).
NaN == -99
\* The raw (non-null) values of a column.  The spacing is uneven on purpose:
\* equal width and equal frequency differ on it.
RawValues == {1, 2, 4}
\* The id of the dedicated bucket of missing values.
MissingId == -1
\* The id of the bucket of unseen ("other") categories.
OtherId == -2
\* The id of the first special bucket; the k-th declared group gets
\* SpecialBase - (k - 1).
SpecialBase == -3
\* Optimal / AsIsNumerical accept at most this many distinct values.
PreBucketLimit == 100

\* ---------------------------------------------------------------- helpers
Min(S) == CHOOSE m \in S : \A x \in S : m <= x
Max(S) == CHOOSE m \in S : \A x \in S : m >= x
Range(s) == {s[i] : i \in DOMAIN s}

\* The element of a one-element set: The({F(v) : v \in {e}}) is F(e) with e
\* computed once, as a local variable of the code is.
The(S) == CHOOSE x \in S : TRUE

\* The elements of a finite set of integers, ascending: the i-th is the one
\* with i - 1 elements below it.
SortSet(S) ==
    [i \in 1 .. Cardinality(S) |->
        CHOOSE x \in S : Cardinality({z \in S : z < x}) = i - 1]

\* The subsequence of s at the positions keep (a set of indices), in order.
SelectSeq2(s, keep) ==
    The({[k \in DOMAIN at |-> s[at[k]]] : at \in {SortSet(keep \cap DOMAIN s)}})

\* s without the repeats of a value, each value kept where it first occurs
\* (pandas.unique / Series.unique).
Dedup(s) ==
    SelectSeq2(s, {i \in DOMAIN s : \A j \in 1 .. (i - 1) : s[j] # s[i]})

RECURSIVE InsertSorted(_, _)
InsertSorted(s, x) ==
    IF s = <<>> THEN <<x>>
    ELSE IF x < s[1] THEN <<x>> \o s
    ELSE <<s[1]>> \o InsertSorted(Tail(s), x)

RECURSIVE SortAsc(_)
\* s sorted ascending, repeats kept.
SortAsc(s) == IF s = <<>> THEN <<>> ELSE InsertSorted(SortAsc(Tail(s)), s[1])

HasDuplicates(s) == \E i, j \in DOMAIN s : i < j /\ s[i] = s[j]

\* An argument or attribute that may be None: None, or Some(v).
None == {}
Some(v) == {v}

\* ------------------------------------------------------------ BucketMapping
\* The values of all special groups of one feature.  specials is the ordered
\* dict {label: [values]} as a sequence of [label, values].
SpecialValues(specials) == UNION {specials[k].values : k \in DOMAIN specials}

\* One feature's discretization rule (skorecard.bucket_mapping.BucketMapping).
\*   type            "numerical" | "categorical"
\*   map, den        numerical: the boundaries map[i] / den
\*   nan_in_map      numerical: the boundary list also holds a NaN
\*   cmap            categorical: category -> bucket id
\*   right           numerical: right-inclusive segments
\*   specials        the special groups
\*   missing_bucket  {} for None, {b} for the explicit bucket b
BucketMapping(type, map, den, nan_in_map, cmap, right, specials, missing_bucket) ==
    [type |-> type, map |-> map, den |-> den, nan_in_map |-> nan_in_map,
     cmap |-> cmap, right |-> right, specials |-> specials,
     missing_bucket |-> missing_bucket]

\* np.digitize(x, bins, right): the number of boundaries below x (right, so
\* that boundary[i-1] < x <= boundary[i]) or not above x (not right).  A NaN
\* boundary compares False with every x.
Digitize(x, map, den, right) ==
    Cardinality({i \in DOMAIN map :
                    IF right THEN map[i] < den * x ELSE map[i] <= den * x})

\* The number of segments of a numerical mapping.
NumSegments(bm) == Len(bm.map) + 1 + (IF bm.nan_in_map THEN 1 ELSE 0)

\* The id of the bucket a missing value goes to.
MissingBucketOf(bm) ==
    IF bm.missing_bucket = {} THEN MissingId
    ELSE CHOOSE b \in bm.missing_bucket : TRUE

\* The index of the first special group that lists v (0 when none does).
SpecialGroupOf(specials, v) ==
    IF v \in SpecialValues(specials)
    THEN Min({k \in DOMAIN specials : v \in specials[k].values})
    ELSE 0

\* BucketMapping.transform on one value.
TransformValue(bm, v) ==
    IF v = NaN THEN MissingBucketOf(bm)
    ELSE IF SpecialGroupOf(bm.specials, v) > 0
         THEN SpecialBase - (SpecialGroupOf(bm.specials, v) - 1)
    ELSE IF bm.type = "numerical"
         THEN Digitize(v, bm.map, bm.den, bm.right)
    ELSE IF v \in DOMAIN bm.cmap THEN bm.cmap[v]
    ELSE OtherId

\* BucketMapping.transform on a column.
TransformColumn(bm, col) == [i \in DOMAIN col |-> TransformValue(bm, col[i])]

\* A label: the kind of text ("range", "category", "Missing", "Other",
\* "Special"), the name after "Special: ", and whether " | Missing" is
\* appended.
Label(kind, name, missing) == [kind |-> kind, name |-> name, missing |-> missing]
SpecialLabel(name) == Label("Special", name, FALSE)
MissingLabel == Label("Missing", "", FALSE)

\* The ids of the normal partition of a mapping.
NormalIds(bm) ==
    IF bm.type = "numerical" THEN 0 .. (NumSegments(bm) - 1)
    ELSE {bm.cmap[v] : v \in DOMAIN bm.cmap}

\* The ids of the special groups of a mapping.
SpecialIds(bm) == {SpecialBase - (k - 1) : k \in DOMAIN bm.specials}

\* BucketMapping.labels: bucket id -> label, for every bucket of the mapping.
Labels(bm) ==
    LET ids == NormalIds(bm) \cup SpecialIds(bm)
               \cup (IF bm.type = "categorical" THEN {OtherId} ELSE {})
               \cup (IF bm.missing_bucket = {} THEN {MissingId} ELSE {})
    IN [b \in ids |->
          IF b = MissingId /\ bm.missing_bucket = {} THEN MissingLabel
          ELSE IF b <= SpecialBase
               THEN Label("Special", bm.specials[SpecialBase - b + 1].label,
                          b \in bm.missing_bucket)
          ELSE IF b = OtherId THEN Label("Other", "", b \in bm.missing_bucket)
          ELSE Label(IF bm.type = "numerical" THEN "range" ELSE "category", "",
                     b \in bm.missing_bucket)]

\* The label of bucket b; a bucket the mapping does not know has no text.
LabelOf(bm, b) ==
    IF b \in DOMAIN Labels(bm) THEN Labels(bm)[b]
    ELSE Label("none", "", b \in bm.missing_bucket)

\* build_bucket_table: one row per realized bucket id of the column, with the
\* label and the record count.
BuildBucketTable(col, bm) ==
    LET ids == TransformColumn(bm, col)
    IN [b \in Range(ids) |->
          [label |-> LabelOf(bm, b),
           Count |-> Cardinality({i \in DOMAIN ids : ids[i] = b})]]

\* ------------------------------------------------- a bucketer's configuration
\* missing_treatment: "separate", "most_frequent", or a dict {column: bucket}.
MissingTreatment(kind, dict) == [kind |-> kind, dict |-> dict]
Separate == MissingTreatment("separate", <<>>)
MostFrequent == MissingTreatment("most_frequent", <<>>)

\* A bucketer object: its constructor arguments with the defaults of the
\* source, the two choices the code leaves to its libraries, and the
\* attributes fit sets.
\*   oracle  the answer of the delegated algorithm (tree, solver, clustering):
\*           the candidate split positions it prefers
\*   tie     how a sort orders rows of equal key: "low" or "high" bucket id
\*           (category) first
\*   max_n_categories  None, or Some(n)
\*   fitted  features_bucket_mapping_ is set
\*   features_bucket_mapping_, bucket_tables_  feature -> mapping / table
\*   min_bin_size  a fraction num / den
\*   binners  self.binners: feature -> the solver or the tree built for it,
\*            with the arguments it was built with
Bucketer(strategy) ==
    [strategy |-> strategy, variables |-> <<>>, specials |-> <<>>,
     missing_treatment |-> Separate,
     n_bins |-> 5,
     max_n_bins |-> IF strategy = "DecisionTree" THEN 100 ELSE 10,
     right |-> TRUE, variables_type |-> "numerical",
     encoding_method |-> "frequency", tol |-> [num |-> 5, den |-> 100],
     max_n_categories |-> None, remainder |-> "passthrough",
     min_bin_size |-> [num |-> 5, den |-> 100],
     oracle |-> {}, tie |-> "low",
     fitted |-> FALSE, features_bucket_mapping_ |-> <<>>,
     has_tables |-> FALSE, bucket_tables_ |-> <<>>,
     binners |-> <<>>]

\* ------------------------------------------------------ filtering for fit
\* _filter_specials_for_fit: the rows whose value is in no special group.
FilterSpecialsForFit(col, special) ==
    {i \in DOMAIN col : col[i] \notin SpecialValues(special)}

\* _filter_na_for_fit: of the rows kept, those that are not null.
FilterNaForFit(col, rows) == {i \in rows : col[i] # NaN}

\* The values of the rows kept, in row order.
ValuesAt(col, rows) == SelectSeq2(col, rows)

\* The first n elements of s chosen by the oracle: the candidates whose
\* position the oracle names come first, then the others, both in order.
OraclePick(cands, n, oracle) ==
    LET named == SelectSeq2(cands, oracle \cap DOMAIN cands)
        other == SelectSeq2(cands, DOMAIN cands \ oracle)
        all == named \o other
    IN SortSet(Range(SubSeq(all, 1, IF n < Len(all) THEN n ELSE Len(all))))

\* The candidates the oracle names, at most n of them.
OracleSubset(cands, n, oracle) ==
    LET named == SelectSeq2(cands, oracle \cap DOMAIN cands)
    IN SubSeq(named, 1, IF n < Len(named) THEN n ELSE Len(named))

\* What the message of an error names.
Message(names_feature, threshold) ==
    [names_feature |-> names_feature, threshold |-> threshold]
NoMessage == Message(FALSE, 0)

\* What the strategy's algorithm returns for one feature:
\*   err     "none", or the error raised
\*   handed  the values handed to the delegated algorithm
\*   target  the target handed to it with them (<<>>: none)
\*   msg     what the message of the error names: whether the feature, and
\*           which threshold (0: none)
\*   binner  None, or Some(the solver or tree that self.binners[feature] was
\*           set to)
Found(type, map, den, nan_in_map, cmap, right, handed) ==
    [err |-> "none", type |-> type, map |-> map, den |-> den,
     nan_in_map |-> nan_in_map, cmap |-> cmap, right |-> right,
     handed |-> handed, target |-> <<>>, msg |-> NoMessage, binner |-> None]
Raised(err, handed) ==
    [err |-> err, type |-> "numerical", map |-> <<>>, den |-> 1,
     nan_in_map |-> FALSE, cmap |-> <<>>, right |-> TRUE, handed |-> handed,
     target |-> <<>>, msg |-> NoMessage, binner |-> None]
\* An error of the fit itself, raised before any algorithm is called.
RaisedMessage(err, names_feature, threshold) ==
    [Raised(err, <<>>) EXCEPT !.msg = Message(names_feature, threshold)]
\* The result r of a strategy that has set self.binners[feature] = binner.
WithBinner(r, binner) == [r EXCEPT !.binner = Some(binner)]
\* The result r of a strategy whose algorithm was given y_flt.
WithTarget(r, y_flt) == [r EXCEPT !.target = y_flt]

\* The edges of the histogram cut as [:-1]: the lowest edge is kept.
HistogramEdgesButLast(vals, n) ==
    IF vals = <<>> THEN [map |-> [i \in 1 .. n |-> i - 1], den |-> n]
    ELSE LET lo == Min(Range(vals))
             hi == Max(Range(vals))
         IN IF lo = hi
            THEN [map |-> [i \in 1 .. n |-> 2 * n * lo - n + 2 * (i - 1)],
                  den |-> 2 * n]
            ELSE [map |-> [i \in 1 .. n |-> n * lo + (i - 1) * (hi - lo)],
                  den |-> n]

\* ------------------------------------------------------------- EqualWidth
\* np.histogram(values, bins=n)[1][1:-1]: the inner edges of n equal-width
\* bins over [min, max]; over [min - 0.5, max + 0.5] when min = max, over
\* [0, 1] when there is no value.
HistogramInnerEdges(vals, n) ==
    IF vals = <<>> THEN [map |-> [i \in 1 .. (n - 1) |-> i], den |-> n]
    ELSE LET lo == Min(Range(vals))
             hi == Max(Range(vals))
         IN IF lo = hi
            THEN [map |-> [i \in 1 .. (n - 1) |-> 2 * n * lo - n + 2 * i],
                  den |-> 2 * n]
            ELSE [map |-> [i \in 1 .. (n - 1) |-> n * lo + i * (hi - lo)],
                  den |-> n]

EqualWidthFind(b, col, rows) ==
    LET vals == ValuesAt(col, FilterNaForFit(col, rows))
        h == HistogramInnerEdges(vals, b.n_bins)
    IN Found("numerical", h.map, h.den, FALSE, <<>>, TRUE, vals)

\* --------------------------------------------------------- EqualFrequency
\* The quantile j / n of the sorted values s, times n (linear interpolation).
QuantileTimesN(s, j, n) ==
    LET pos == (Len(s) - 1) * j
        lo == pos \div n
        r == pos % n
    IN IF r = 0 THEN n * s[lo + 1]
       ELSE n * s[lo + 1] + r * (s[lo + 2] - s[lo + 1])

\* pd.qcut(values, q=n, retbins=True)[1][1:-1].  qcut ignores nulls.  With
\* duplicates="raise" repeated edges raise ValueError; the handler calls
\* qcut again with duplicates="drop", which keeps each edge once.
QcutInnerEdges(vals, n) ==
    LET s == SortAsc(vals)
        edges == IF s = <<>> THEN <<>>
                 ELSE [j \in 1 .. (n + 1) |-> QuantileTimesN(s, j - 1, n)]
        kept == IF HasDuplicates(edges) /\ Len(edges) # 2
                THEN SortSet(Range(edges)) ELSE edges
    IN IF Len(kept) < 3 THEN <<>> ELSE SubSeq(kept, 2, Len(kept) - 1)

EqualFrequencyFind(b, col, rows) ==
    LET handed == ValuesAt(col, rows)
        vals == ValuesAt(col, FilterNaForFit(col, rows))
    IN Found("numerical", QcutInnerEdges(vals, b.n_bins), b.n_bins, FALSE,
             <<>>, TRUE, handed)

\* ------------------------------------------------ AgglomerativeClustering
\* The gaps of the sorted samples s where a cluster may end: between two
\* different values.  Equal samples are at distance 0 and merge first, so
\* that a cluster ends between equal samples only when there are fewer
\* distinct values than clusters.
ClusterCuts(s, n, oracle) ==
    LET distinct == SortSet({i \in 1 .. (Len(s) - 1) : s[i] < s[i + 1]})
        same == SortSet({i \in 1 .. (Len(s) - 1) : s[i] = s[i + 1]})
    IN IF Len(distinct) >= n - 1 THEN OraclePick(distinct, n - 1, oracle)
       ELSE SortSet(Range(distinct)
                    \cup Range(OraclePick(same, n - 1 - Len(distinct), oracle)))

\* AgglomerativeClustering(n_clusters=self.n_bins).
AgglomerativeClustering(n_clusters) ==
    [estimator |-> "AgglomerativeClustering", n_clusters |-> n_clusters]

\* AgglomerativeClustering(n_clusters=n).fit, then the mean of the maximum
\* of a cluster and the minimum of the next one.
AgglomerativeFind(b, col, rows) ==
    LET vals == ValuesAt(col, FilterNaForFit(col, rows))
        s == SortAsc(vals)
        cuts == ClusterCuts(s, b.n_bins, b.oracle)
    IN IF Len(s) < 2 \/ Len(s) < b.n_bins THEN Raised("ValueError", vals)
       ELSE WithBinner(Found("numerical",
                             [k \in DOMAIN cuts |-> s[cuts[k]] + s[cuts[k] + 1]], 2,
                             FALSE, <<>>, TRUE, vals),
                       AgglomerativeClustering(b.n_bins))


\* ----------------------------------------------------------- DecisionTree
\* The thresholds a tree can split on: the midpoints (times 2) of
\* neighbouring distinct values.
TreeThresholds(vals) ==
    LET d == SortSet(Range(vals))
    IN [i \in 1 .. (Len(d) - 1) |-> d[i] + d[i + 1]]

\* DecisionTreeClassifier(max_leaf_nodes=..., min_samples_leaf=...).
DecisionTreeClassifier(max_leaf_nodes, min_samples_leaf) ==
    [estimator |-> "DecisionTreeClassifier", max_leaf_nodes |-> max_leaf_nodes,
     min_samples_leaf |-> min_samples_leaf]

\* "min_bin_size = self.min_bin_size / frac_left", at most 0.5, where
\* frac_left = n_left / n_rows.
MinBinSize(min_bin_size, n_left, n_rows) ==
    IF 2 * min_bin_size.num * n_rows > min_bin_size.den * n_left
    THEN [num |-> 1, den |-> 2]
    ELSE [num |-> min_bin_size.num * n_rows, den |-> min_bin_size.den * n_left]

\* DecisionTreeClassifier(max_leaf_nodes).fit and the unique thresholds of
\* its inner nodes: at most max_leaf_nodes - 1 of the candidates.  The
\* classifier refuses max_leaf_nodes < 2 in its fit.
DecisionTreeFind(b, col, rows, y, has_special, special) ==
    LET n_special_bins == IF has_special THEN Len(special) ELSE 0
        vals == ValuesAt(col, FilterNaForFit(col, rows))
        y_flt == ValuesAt(y, FilterNaForFit(col, rows))
        max_leaf_nodes == b.max_n_bins - n_special_bins
        binner == DecisionTreeClassifier(max_leaf_nodes,
                                         MinBinSize(b.min_bin_size, Len(vals), Len(col)))
    IN IF has_special /\ b.max_n_bins - n_special_bins <= 1
       THEN RaisedMessage("ValueError", FALSE, n_special_bins + 2)
       ELSE IF vals = <<>>
            THEN Found("numerical", <<>>, 2, FALSE, <<>>, FALSE, <<>>)
       ELSE IF max_leaf_nodes < 2
            THEN WithTarget(WithBinner(Raised("ValueError", vals), binner), y_flt)
       ELSE WithTarget(WithBinner(Found("numerical",
                                        OracleSubset(TreeThresholds(vals),
                                                     max_leaf_nodes - 1, b.oracle),
                                        2, FALSE, <<>>, FALSE, vals), binner),
                       y_flt)

\* ---------------------------------------------------------------- Optimal
\* OptimalBinning(user_splits, max_n_bins).fit(...).splits, numerical: some
\* of the user splits, none of which leaves a bin without a training value.
\* Categorical: groups of categories, numbered in order.
\* The check with the limit itself refused.
TooManyUniqueAtLimit(uniq_values) == Len(uniq_values) >= PreBucketLimit
\* "if len(uniq_values) > 100".
TooManyUnique(uniq_values) == Len(uniq_values) > PreBucketLimit

\* OptimalBinning(min_bin_size=..., max_n_bins=...).
OptimalBinning(max_n_bins, min_bin_size) ==
    [estimator |-> "OptimalBinning", max_n_bins |-> max_n_bins,
     min_bin_size |-> min_bin_size]

OptimalFind(b, col, rows, y) ==
    LET vals == ValuesAt(col, FilterNaForFit(col, rows))
        y_flt == ValuesAt(y, FilterNaForFit(col, rows))
        uniq_values == SortSet(Range(vals))
        cuts == OracleSubset([i \in 1 .. (Len(uniq_values) - 1) |-> i + 1],
                             b.max_n_bins - 1, b.oracle)
        binner == OptimalBinning(b.max_n_bins, b.min_bin_size)
    IN IF b.variables_type = "numerical" /\ TooManyUnique(uniq_values)
       THEN RaisedMessage("NotPreBucketedError", TRUE, PreBucketLimit)
       ELSE IF vals = <<>>
            THEN WithTarget(WithBinner(Raised("ValueError", vals), binner), y_flt)
       ELSE IF b.variables_type = "numerical"
            THEN WithTarget(WithBinner(Found("numerical",
                                  [k \in DOMAIN cuts |-> uniq_values[cuts[k]]],
                                  1, FALSE, <<>>, FALSE, vals), binner), y_flt)
       ELSE WithTarget(WithBinner(Found("categorical", <<>>, 1, FALSE,
                  [v \in Range(uniq_values) |->
                     Cardinality({k \in DOMAIN cuts :
                        uniq_values[cuts[k]] <= v})],
                  TRUE, vals), binner), y_flt)

\* ----------------------------------------------------- OrdinalCategorical
RECURSIVE OrderBy(_, _, _)
\* The elements of S sorted by the strict order before (a set of pairs
\* <<c, d>>: c sorts before d); equal keys by the tie rule.
OrderBy(S, before, tie) ==
    IF S = {} THEN <<>>
    ELSE LET firsts == {x \in S : \A z \in S : <<z, x>> \notin before}
             first == IF tie = "low" THEN Min(firsts) ELSE Max(firsts)
         IN <<first>> \o OrderBy(S \ {first}, before, tie)

\* normalized_counts[: max_n_categories], then [normalized_counts >= tol],
\* then zip(index, range(0, len)): the categories kept, numbered in order.
OrdinalMapping(b, ranked, count, total) ==
    LET limit == IF b.max_n_categories = None
                    \/ The(b.max_n_categories) > Len(ranked)
                 THEN Len(ranked) ELSE The(b.max_n_categories)
        kept == {i \in 1 .. limit :
                    count[ranked[i]] * b.tol.den >= b.tol.num * total}
    IN [c \in {ranked[i] : i \in kept} |->
          Cardinality({j \in kept : j < (CHOOSE i \in kept : ranked[i] = c)})]

OrdinalFind(b, col, rows, y) ==
    LET keep == FilterNaForFit(col, rows)
        cats == {col[i] : i \in keep}
        count == [c \in cats |-> Cardinality({i \in keep : col[i] = c})]
        events == [c \in cats |-> Cardinality({i \in keep : col[i] = c /\ y[i] = 1})]
        \* value_counts(normalize=True): most frequent first
        MoreFrequent == {p \in cats \X cats : count[p[1]] > count[p[2]]}
        \* groupby(var)["target"].mean().sort_values(ascending=True)
        LowerMean == {p \in cats \X cats :
                         events[p[1]] * count[p[2]] < events[p[2]] * count[p[1]]}
    IN WithTarget(Found("categorical", <<>>, 1, FALSE,
             The({OrdinalMapping(b, ranked, count, Cardinality(keep)) :
                    ranked \in {IF b.encoding_method = "ordered"
                                 THEN OrderBy(cats, LowerMean, b.tie)
                                 ELSE OrderBy(cats, MoreFrequent, b.tie)}}),
             TRUE, ValuesAt(col, keep)), ValuesAt(y, keep))

\* ------------------------------------------------------- AsIsCategorical
AsIsCategoricalFind(b, col, rows) ==
    LET vals == ValuesAt(col, FilterNaForFit(col, rows))
        unq == Dedup(vals)
    IN Found("categorical", <<>>, 1, FALSE,
             [c \in Range(unq) |-> (CHOOSE i \in DOMAIN unq : unq[i] = c) - 1],
             TRUE, vals)

\* --------------------------------------------------------- AsIsNumerical
\* X_flt.unique().tolist(); sort(): nulls are not removed, a NaN is one of
\* the unique values and stays in the boundary list.
AsIsNumericalFind(b, col, rows) ==
    LET handed == ValuesAt(col, rows)
        boundaries == Dedup(handed)
    IN IF Len(boundaries) > PreBucketLimit
       THEN RaisedMessage("NotPreBucketedError", TRUE, PreBucketLimit)
       ELSE Found("numerical", SortSet(Range(boundaries) \ {NaN}), 1,
                  NaN \in Range(boundaries), <<>>, b.right, handed)

\* --------------------------------------------------- the shared fit steps
\* The first row and the second row of the bucket table sorted by Count,
\* descending.
TableByCount(table, tie) ==
    LET More == {p \in (DOMAIN table) \X (DOMAIN table) :
                    table[p[1]].Count > table[p[2]].Count}
    IN OrderBy(DOMAIN table, More, tie)

\* The resolution of "most_frequent" with the sort ascending: the bucket of
\* the last row by Count is taken where the first one is meant.
LeastFrequentBucket(table, tie) ==
    LET sorted == TableByCount(table, tie)
        n == Len(sorted)
    IN IF table[sorted[n]].label # MissingLabel
       THEN [err |-> "none", bucket |-> sorted[n]]
       ELSE IF n < 2 THEN [err |-> "KeyError", bucket |-> MissingId]
       ELSE [err |-> "none", bucket |-> sorted[n - 1]]

\* The bucket "most_frequent" resolves to: the bucket of the first row, or of
\* the second row when the first is the Missing row; ["bucket_id"][1] raises
\* KeyError when the table has one row.
MostFrequentBucket(table, tie) ==
    LET sorted == TableByCount(table, tie)
    IN IF table[sorted[1]].label # MissingLabel
       THEN [err |-> "none", bucket |-> sorted[1]]
       ELSE IF Len(sorted) < 2 THEN [err |-> "KeyError", bucket |-> MissingId]
       ELSE [err |-> "none", bucket |-> sorted[2]]

\* The strategy's algorithm on one feature.
Find(b, col, y, has_special, special) ==
    LET rows == IF has_special THEN FilterSpecialsForFit(col, special)
                ELSE DOMAIN col
    IN CASE b.strategy = "EqualWidth" -> EqualWidthFind(b, col, rows)
         [] b.strategy = "EqualFrequency" -> EqualFrequencyFind(b, col, rows)
         [] b.strategy = "AgglomerativeClustering" -> AgglomerativeFind(b, col, rows)
         [] b.strategy = "DecisionTree" ->
                DecisionTreeFind(b, col, rows, y, has_special, special)
         [] b.strategy = "Optimal" -> OptimalFind(b, col, rows, y)
         [] b.strategy = "OrdinalCategorical" -> OrdinalFind(b, col, rows, y)
         [] b.strategy = "AsIsCategorical" -> AsIsCategoricalFind(b, col, rows)
         [] OTHER -> AsIsNumericalFind(b, col, rows)

\* missing_bucket when the dict of missing_treatment is not consulted.
FirstMissingBucketNone(b, feature) == {}

\* missing_bucket with bucket 0 as the default where None is meant.
FirstMissingBucketZero(b, feature) ==
    IF b.missing_treatment.kind = "dict"
       /\ feature \in DOMAIN b.missing_treatment.dict
    THEN {b.missing_treatment.dict[feature]}
    ELSE {0}

\* missing_bucket as the loop body of fit sets it before the first
\* BucketMapping: None, or missing_treatment.get(feature).
FirstMissingBucket(b, feature) ==
    IF b.missing_treatment.kind = "dict"
       /\ feature \in DOMAIN b.missing_treatment.dict
    THEN {b.missing_treatment.dict[feature]}
    ELSE {}

\* What the body of the loop "for feature in self.variables" leaves:
\*   err          "none", or the error that aborts the fit
\*   bm           features_bucket_mapping_[feature]
\*   table        self.bucket_tables_[feature] (has_table: it was assigned)
\*   first_table  the bucket table of the first pass
\*   handed       the values handed to the delegated algorithm
\*   msg, binner  as the strategy left them
Fitted1(err, bm, has_table, table, first_table, handed) ==
    [err |-> err, bm |-> bm, has_table |-> has_table, table |-> table,
     first_table |-> first_table, handed |-> handed, target |-> <<>>,
     msg |-> NoMessage, binner |-> None]

\* The second pass of "most_frequent": the mapping is built again with the
\* bucket mf resolved from the first table, and so is the table.
Resolve(col, bm1, table1, mf, handed) ==
    IF mf.err # "none"
    THEN Fitted1(mf.err, bm1, TRUE, table1, table1, handed)
    ELSE The({Fitted1("none", bm2, TRUE, BuildBucketTable(col, bm2), table1, handed) :
                bm2 \in {[bm1 EXCEPT !.missing_bucket = {mf.bucket}]}})

\* The first bucket table and, for "most_frequent", the second pass.
Tabulate(b, col, bm1, table1, handed) ==
    IF b.missing_treatment.kind # "most_frequent"
    THEN Fitted1("none", bm1, TRUE, table1, table1, handed)
    ELSE The({Resolve(col, bm1, table1, mf, handed) :
                mf \in {MostFrequentBucket(table1, b.tie)}})

\* The first BucketMapping of the feature from what the algorithm found.
Construct(b, col, feature, special, found) ==
    IF found.err # "none"
    THEN [Fitted1(found.err, <<>>, FALSE, <<>>, <<>>, found.handed)
             EXCEPT !.msg = found.msg, !.binner = found.binner,
                    !.target = found.target]
    ELSE The({The({[Tabulate(b, col, bm1, table1, found.handed)
                       EXCEPT !.binner = found.binner, !.target = found.target] :
                     table1 \in {BuildBucketTable(col, bm1)}}) :
                bm1 \in {BucketMapping(found.type, found.map, found.den,
                                       found.nan_in_map, found.cmap, found.right,
                                       special, FirstMissingBucket(b, feature))}})

\* The loop body with the special groups of the feature left aside.
FitFeatureNoSpecials(b, col, y, feature) ==
    The({Construct(b, col, feature, <<>>, found) :
           found \in {Find(b, col, y, FALSE, <<>>)}})

\* The body of the loop "for feature in self.variables" of a fit.
FitFeature(b, col, y, feature) ==
    The({The({Construct(b, col, feature, special, found) :
                found \in {Find(b, col, y, feature \in DOMAIN b.specials, special)}}) :
           special \in {IF feature \in DOMAIN b.specials
                        THEN b.specials[feature] ELSE <<>>}})

\* ---------------------------------------------------------------- datasets
\* A dataframe: the column names in order and the column of each name.
DataFrame(columns, data) == [columns |-> columns, data |-> data]

\* _check_variables: the explicit list, or all columns of X when the list is
\* empty.
CheckVariables(X, variables) ==
    IF variables = <<>> THEN X.columns ELSE variables

\* What the loop has built after the body left r for feature:
\* features_bucket_mapping_ (a local), self.bucket_tables_ and self.binners,
\* and the message of the error the body raised with the feature it stands
\* for in that message.
Collect(acc, feature, r) ==
    [err |-> r.err,
     fbm |-> IF r.err = "none" THEN acc.fbm @@ (feature :> r.bm) ELSE acc.fbm,
     tables |-> IF r.has_table THEN (feature :> r.table) @@ acc.tables
                ELSE acc.tables,
     binners |-> IF r.binner # None THEN (feature :> The(r.binner)) @@ acc.binners
                 ELSE acc.binners,
     handed |-> (feature :> r.handed) @@ acc.handed,
     target |-> (feature :> r.target) @@ acc.target,
     msg |-> r.msg, feature |-> feature]

RECURSIVE FitLoop(_, _, _, _, _)
\* "for feature in self.variables": the features left to fit and what the
\* loop has built so far.
FitLoop(b, X, y, todo, acc) ==
    IF todo = <<>> \/ acc.err # "none" THEN acc
    ELSE The({FitLoop(b, X, y, Tail(todo), next) :
                next \in {Collect(acc, Head(todo),
                                  FitFeature(b, X.data[Head(todo)], y, Head(todo)))}})

\* A fit that gives a mapping only to an object that had none.
AfterLoopOnce(b, variables, loop) ==
    [err |-> loop.err, msg |-> loop.msg, feature |-> loop.feature,
     handed |-> loop.handed, target |-> loop.target,
     b |-> [b EXCEPT !.variables = variables,
                     !.has_tables = TRUE,
                     !.bucket_tables_ = loop.tables,
                     !.binners = loop.binners,
                     !.fitted = IF loop.err = "none" THEN TRUE ELSE @,
                     !.features_bucket_mapping_ =
                         IF loop.err = "none" /\ ~b.fitted THEN loop.fbm ELSE <<>>]]

\* The bucketer after the loop of fit: self.bucket_tables_ is assigned in any
\* case, self.features_bucket_mapping_ only when the loop did not raise.
AfterLoop(b, variables, loop) ==
    [err |-> loop.err, msg |-> loop.msg, feature |-> loop.feature,
     handed |-> loop.handed, target |-> loop.target,
     b |-> [b EXCEPT !.variables = variables,
                     !.has_tables = TRUE,
                     !.bucket_tables_ = loop.tables,
                     !.binners = loop.binners,
                     !.fitted = IF loop.err = "none" THEN TRUE ELSE @,
                     !.features_bucket_mapping_ =
                         IF loop.err = "none" THEN loop.fbm ELSE @]]

\* fit(X, y) of the eight fitting bucketers: the bucketer after the call and
\* the error it raised ("none": it returned).  self.variables is assigned
\* before the checks can raise.
FitVariables(b, X, y, variables) ==
    IF ~(Range(variables) \subseteq Range(X.columns))
    THEN [err |-> "KeyError", msg |-> NoMessage, feature |-> "",
          handed |-> <<>>, target |-> <<>>, b |-> b]
    ELSE IF ~(DOMAIN b.specials \subseteq Range(X.columns))
    THEN [err |-> "AssertionError", msg |-> NoMessage, feature |-> "",
          handed |-> <<>>, target |-> <<>>,
          b |-> [b EXCEPT !.variables = variables]]
    ELSE The({AfterLoop(b, variables, loop) :
                loop \in {FitLoop(b, X, y, variables,
                                  [err |-> "none", fbm |-> <<>>, tables |-> <<>>,
                                   binners |-> <<>>, handed |-> <<>>,
                                   target |-> <<>>, msg |-> NoMessage,
                                   feature |-> ""])}})

\* The keys of a dict of features, in the order the features are listed.
FeatureOrder == <<"a", "b">>
Keys(f) == SelectSeq2(FeatureOrder, {i \in DOMAIN FeatureOrder :
                                       FeatureOrder[i] \in DOMAIN f})

\* A UserInputBucketer that forgets the mapping it was given.
UserInputBucketerEmpty(features_bucket_mapping, variables) ==
    [Bucketer("UserInput") EXCEPT !.fitted = TRUE, !.variables = variables]
\* UserInputBucketer(features_bucket_mapping, variables) with a
\* FeaturesBucketMapping: the mapping is stored as features_bucket_mapping_
\* by the constructor, and the variables default to its keys.
UserInputBucketer(features_bucket_mapping, variables) ==
    [Bucketer("UserInput") EXCEPT
        !.fitted = TRUE,
        !.features_bucket_mapping_ = features_bucket_mapping,
        !.variables = IF variables = <<>> THEN Keys(features_bucket_mapping)
                      ELSE variables]

\* UserInputBucketer.fit: only the bucket tables are computed, one for every
\* feature of self.variables.
UserInputFit(b, X, y) ==
    IF ~(Range(b.variables) \subseteq Range(X.columns)
         /\ Range(b.variables) \subseteq DOMAIN b.features_bucket_mapping_)
    THEN [err |-> "KeyError", msg |-> NoMessage, feature |-> "",
          handed |-> <<>>, target |-> <<>>,
          b |-> [b EXCEPT !.has_tables = TRUE, !.bucket_tables_ = <<>>]]
    ELSE [err |-> "none", msg |-> NoMessage, feature |-> "",
          handed |-> <<>>, target |-> <<>>,
          b |-> [b EXCEPT !.has_tables = TRUE,
                          !.bucket_tables_ =
                             [c \in Range(b.variables) |->
                                BuildBucketTable(X.data[c],
                                                 b.features_bucket_mapping_[c])]]]

Fit(b, X, y) ==
    IF b.strategy = "UserInput" THEN UserInputFit(b, X, y)
    ELSE The({FitVariables(b, X, y, variables) :
                variables \in {CheckVariables(X, b.variables)}})

\* ------------------------------------------------------------ constructors
\* A Python value handed to a constructor: its type and, for a number, the
\* number num / den.
Py(type, num, den) == [type |-> type, num |-> num, den |-> den]
PyInt(n) == Py("int", n, 1)
PyNone == Py("NoneType", 0, 1)

\* A constructor call: the class and the arguments that are validated; the
\* other arguments have their defaults.
\*   features_bucket_mapping  [type, maps]: the type of the argument of
\*                            UserInputBucketer and, for a dict or a
\*                            FeaturesBucketMapping, feature -> description
Call(strategy, n_bins, remainder, tol, max_n_categories, features_bucket_mapping) ==
    [strategy |-> strategy, n_bins |-> n_bins, remainder |-> remainder,
     tol |-> tol, max_n_categories |-> max_n_categories,
     features_bucket_mapping |-> features_bucket_mapping]
\* No constructor call is modelled: the scenario starts from the object.
NoCall == Call("none", PyNone, "passthrough", PyNone, PyNone,
               [type |-> "NoneType", maps |-> <<>>])

\* What a constructor leaves: the error raised ("none": it returned) and the
\* object; NoBucketer when there is none.
NoBucketer == Bucketer("none")
Rejected(err) == [err |-> err, b |-> NoBucketer]
Built(b) == [err |-> "none", b |-> b]

\* "assert remainder in ['passthrough', 'drop']".
RemainderAllowed(remainder) == remainder \in {"passthrough", "drop"}

\* FeaturesBucketMapping(dict): each description of the dict becomes a
\* BucketMapping, the fields it leaves out at their defaults.
FeaturesBucketMapping(maps) ==
    [c \in DOMAIN maps |->
        BucketMapping(maps[c].type, maps[c].map, 1, FALSE, <<>>,
                      IF "right" \in DOMAIN maps[c] THEN maps[c].right ELSE TRUE,
                      <<>>, None)]

\* __init__ of the three bucketers with n_bins.
NewSetBins(c) ==
    IF c.n_bins.type # "int" THEN Rejected("AssertionError")
    ELSE IF ~(c.n_bins.num >= 1) THEN Rejected("AssertionError")
    ELSE IF ~RemainderAllowed(c.remainder) THEN Rejected("AssertionError")
    ELSE Built([Bucketer(c.strategy) EXCEPT !.n_bins = c.n_bins.num,
                                            !.remainder = c.remainder])

\* "if max_n_categories < 0 or not isinstance(max_n_categories, int)", which
\* the message reads as "takes only positive integer numbers".
MaxCategoriesRefused(m) == m.num < 0 \/ m.type # "int"

\* OrdinalCategoricalBucketer.__init__.
NewOrdinal(c) ==
    IF ~RemainderAllowed(c.remainder) THEN Rejected("AssertionError")
    ELSE IF c.tol.num < 0 \/ c.tol.num > c.tol.den THEN Rejected("ValueError")
    ELSE IF c.max_n_categories.type # "NoneType"
            /\ MaxCategoriesRefused(c.max_n_categories)
    THEN Rejected("ValueError")
    ELSE Built([Bucketer(c.strategy) EXCEPT
                   !.remainder = c.remainder,
                   !.tol = [num |-> c.tol.num, den |-> c.tol.den],
                   !.max_n_categories =
                      IF c.max_n_categories.type = "NoneType" THEN None
                      ELSE Some(c.max_n_categories.num)])

\* UserInputBucketer.__init__: a dict is converted, a FeaturesBucketMapping
\* is taken as it is, anything else is a TypeError.
NewUserInput(c) ==
    IF c.features_bucket_mapping.type = "FeaturesBucketMapping"
    THEN Built(UserInputBucketer(c.features_bucket_mapping.maps, <<>>))
    ELSE IF c.features_bucket_mapping.type # "dict" THEN Rejected("TypeError")
    ELSE Built(UserInputBucketer(
                  FeaturesBucketMapping(c.features_bucket_mapping.maps), <<>>))

\* __init__ of the other bucketers: of the arguments considered, only
\* remainder is validated.
NewOther(c) ==
    IF ~RemainderAllowed(c.remainder) THEN Rejected("AssertionError")
    ELSE Built([Bucketer(c.strategy) EXCEPT !.remainder = c.remainder])

\* The constructor of the class c.strategy called with the arguments c.
New(c) ==
    IF c.strategy \in {"EqualWidth", "EqualFrequency", "AgglomerativeClustering"}
    THEN NewSetBins(c)
    ELSE IF c.strategy = "OrdinalCategorical" THEN NewOrdinal(c)
    ELSE IF c.strategy = "UserInput" THEN NewUserInput(c)
    ELSE NewOther(c)

\* FeaturesBucketMapping.transform: every column the mapping covers is
\* replaced by its bucket ids, the other columns pass through.
TransformWith(fbm, X) ==
    DataFrame(X.columns,
              [c \in DOMAIN X.data |->
                 IF c \in DOMAIN fbm THEN TransformColumn(fbm[c], X.data[c])
                 ELSE X.data[c]])

\* The columns of X that are in keep, in their order, and their data.
SelectColumns(X, keep) ==
    DataFrame(SelectSeq2(X.columns, {i \in DOMAIN X.columns : X.columns[i] \in keep}),
              [c \in DOMAIN X.data \cap keep |-> X.data[c]])

\* BaseBucketer.transform: with remainder = "drop" only the columns of
\* self.variables are returned.
Transform(b, X) ==
    IF b.remainder = "drop"
    THEN SelectColumns(TransformWith(b.features_bucket_mapping_, X),
                       Range(b.variables))
    ELSE TransformWith(b.features_bucket_mapping_, X)

\* --------------------------------------------------------------- pipelines
\* A pipeline is the sequence of its steps, each a bucketer.  What a run
\* through the steps has so far: the error raised, the steps (fitted up to
\* the one that raised) and the dataframe as transformed so far.
Ran(err, steps, frame) == [err |-> err, steps |-> steps, X |-> frame]

\* One step of Pipeline.fit_transform: the step r.b was fit on ran.X.
RanStep(ran, r) ==
    Ran(r.err, Append(ran.steps, r.b),
        IF r.err = "none" THEN Transform(r.b, ran.X) ELSE ran.X)

RECURSIVE PipelineRun(_, _, _)
\* The steps todo are fit in order, each on the output of the one before; a
\* step that raises ends the run and leaves the later steps as they were.
PipelineRun(todo, y, ran) ==
    IF todo = <<>> THEN ran
    ELSE IF ran.err # "none" THEN Ran(ran.err, ran.steps \o todo, ran.X)
    ELSE The({PipelineRun(Tail(todo), y, next) :
                next \in {RanStep(ran, Fit(Head(todo), ran.X, y))}})

\* Pipeline.fit_transform(X, y) / Pipeline.fit(X, y).
PipelineFitTransform(steps, frame, y) ==
    PipelineRun(steps, y, Ran("none", <<>>, frame))

RECURSIVE PipelineTransform(_, _)
\* Pipeline.transform(X).
PipelineTransform(steps, frame) ==
    IF steps = <<>> THEN frame
    ELSE PipelineTransform(Tail(steps), Transform(Head(steps), frame))

\* Every step of the pipeline has been fit.
PipelineFitted(steps) == \A k \in DOMAIN steps : steps[k].fitted

RECURSIVE PipelineMapping(_)
\* The features_bucket_mapping_ of a skorecard pipeline: the mappings of its
\* steps together (the steps of a pipeline bucket different columns).
PipelineMapping(steps) ==
    IF steps = <<>> THEN <<>>
    ELSE Head(steps).features_bucket_mapping_ @@ PipelineMapping(Tail(steps))

\* ------------------------------------------------------------------- merge
\* The boundaries of the prebucket mapping a at which the bucket mapping b
\* changes its answer: segment i - 1 and segment i of a get different buckets.
MergedBoundaries(a, b) ==
    SelectSeq2(a.map, {i \in DOMAIN a.map :
                          TransformValue(b, i - 1) # TransformValue(b, i)})

\* The bucket of b a missing value ends in after a, as a missing_bucket.
MergedMissingBucket(a, b) ==
    IF TransformValue(b, TransformValue(a, NaN)) = MissingId THEN {}
    ELSE {TransformValue(b, TransformValue(a, NaN))}

\* merge of two chained numerical mappings of one feature: one BucketMapping
\* on the raw values, with the boundaries of a that b keeps apart.
MergeBucketMapping(a, b) ==
    BucketMapping(a.type, MergedBoundaries(a, b), a.den, a.nan_in_map, <<>>,
                  a.right, a.specials, MergedMissingBucket(a, b))

\* merge_features_bucket_mapping(a, b): every feature of a, merged with b.
MergeFeaturesBucketMapping(fa, fb) ==
    [c \in DOMAIN fa |-> MergeBucketMapping(fa[c], fb[c])]

\* ------------------------------------------------------- remapped specials
\* Every label taken for the first special bucket.
FindRemappedSpecialsFirst(bucket_labels, var_specials) ==
    IF bucket_labels = None \/ var_specials = None THEN <<>>
    ELSE [k \in DOMAIN The(var_specials) |->
            [label |-> The(var_specials)[k].label, values |-> {SpecialBase}]]

\* _find_remapped_specials(bucket_labels, var_specials): for every label of
\* var_specials, in order, the bucket whose label is "Special: <label>", as
\* the one-element list [bucket]; a label no bucket carries is left out.
FindRemappedSpecials(bucket_labels, var_specials) ==
    IF bucket_labels = None \/ var_specials = None THEN <<>>
    ELSE LET labels == The(bucket_labels)
             specials == The(var_specials)
             found == {k \in DOMAIN specials :
                          \E bucket \in DOMAIN labels :
                              labels[bucket] = SpecialLabel(specials[k].label)}
         IN [j \in 1 .. Cardinality(found) |->
               [label |-> specials[SortSet(found)[j]].label,
                values |-> {CHOOSE bucket \in DOMAIN labels :
                               labels[bucket]
                                 = SpecialLabel(specials[SortSet(found)[j]].label)}]]

\* ------------------------------------------------------------------- state
VARIABLES
    bk,     \* a bucketer object
    X,      \* the dataframe at hand
    y,      \* the target at hand
    out,    \* the dataframe the last transform returned
    err,    \* what the last call raised (kind "none": it returned)
    phase,  \* the last call on the bucketer: "new", "fit", "transform"
    bp,     \* a BucketingProcess object
    pc,     \* where BucketingProcess.fit stands
    X_prebucketed_,  \* the local X_prebucketed_ of BucketingProcess.fit
    seen,   \* the dataframe the bucketing pipeline was fit on; for a bucketer,
            \* the values and targets its fit handed to the algorithms
    fbm,    \* what reading bp.features_bucket_mapping_ returned
    remapped,  \* a call of _find_remapped_specials: arguments and result
    call,   \* a constructor call: the class and the arguments
    uib_out,  \* what transform of a UserInputBucketer built from bk returned
    first,  \* the estimators as the first fit left them, once fit is called again
    other,  \* a second BucketingProcess object, once it is constructed
    defaulted  \* the objects whose pipelines are the default arguments of
               \* BucketingProcess.__init__: of "bp", "other"

vars == <<bk, X, y, out, err, phase, bp, pc, X_prebucketed_, seen, fbm, remapped,
         call, uib_out, first, other, defaulted>>

\* An exception: its class, the columns its message lists and the threshold
\* its message states (0: none).
ErrorNaming(kind, columns, threshold) ==
    [kind |-> kind, columns |-> columns, threshold |-> threshold]
Error(kind, columns) == ErrorNaming(kind, columns, 0)
NoError == Error("none", <<>>)
\* The exception a fit that left r has raised.
FitError(r) ==
    ErrorNaming(r.err, IF r.msg.names_feature THEN <<r.feature>> ELSE <<>>,
                r.msg.threshold)
\* What a fit that left r has handed to its algorithms, per feature.
Handed(r) == [data |-> r.handed, target |-> r.target]

\* ------------------------------------------------------------ input domains
Columns == [1 .. NRows -> RawValues \cup {NaN}]
Targets == [1 .. NRows -> {0, 1}]
\* A target with both classes, for the strategies that do not read y.
SomeTarget == [i \in 1 .. NRows |-> i % 2]
Frame(col) == DataFrame(<<"a">>, [c \in {"a"} |-> col])
NoFrame == DataFrame(<<>>, <<>>)

Oracles == SUBSET (1 .. (Cardinality(RawValues) - 1))
Ties == {"low", "high"}

OneSpecial == [c \in {"a"} |-> <<[label |-> "s1", values |-> {4}]>>]
TwoSpecials == [c \in {"a"} |-> <<[label |-> "s1", values |-> {4}],
                                   [label |-> "s2", values |-> {1}]>>]

\* missing_treatment as a dict: column "a" listed, or only a column "b".
DictTreatments ==
    {MissingTreatment("dict", [c \in {"a"} |-> k]) : k \in 0 .. (MaxBins - 2)}
    \cup {MissingTreatment("dict", [c \in {"b"} |-> 0])}

\* The bucketers with an n_bins argument.
SetBinsBucketers ==
    {[Bucketer(s) EXCEPT !.n_bins = n] :
        s \in {"EqualWidth", "EqualFrequency"}, n \in 1 .. MaxBins}
    \cup {[Bucketer("AgglomerativeClustering") EXCEPT !.n_bins = n, !.oracle = o] :
            n \in 1 .. MaxBins, o \in Oracles}

\* The bucketers without one.
OtherBucketers ==
    {[Bucketer("DecisionTree") EXCEPT !.max_n_bins = m, !.oracle = o] :
        m \in {MaxBins, 100}, o \in Oracles}
    \cup {[Bucketer("Optimal") EXCEPT !.variables_type = t, !.oracle = o] :
            t \in {"numerical", "categorical"}, o \in Oracles}
    \cup {[Bucketer("OrdinalCategorical") EXCEPT !.max_n_categories = m,
                                                 !.tol = t] :
            m \in {None, Some(MaxBins - 1)},
            t \in {[num |-> 5, den |-> 100], [num |-> 1, den |-> 2]}}
    \cup {[Bucketer("OrdinalCategorical") EXCEPT !.encoding_method = "ordered"]}
    \cup {Bucketer("AsIsCategorical")}
    \cup {[Bucketer("AsIsNumerical") EXCEPT !.right = r] : r \in BOOLEAN}

\* The constructor calls considered: every strategy with every missing
\* treatment and no specials, and with specials under the default treatment
\* and under "most_frequent".
\* The order of equal keys in a sort is free where a sort decides something.
Bucketers ==
    LET Strategies == SetBinsBucketers \cup OtherBucketers
        TiesOf(b) == IF b.missing_treatment.kind = "most_frequent"
                        \/ b.strategy = "OrdinalCategorical"
                     THEN Ties ELSE {"low"}
        Treated == {[b EXCEPT !.missing_treatment = m] :
                       b \in Strategies,
                       m \in {Separate, MostFrequent} \cup DictTreatments}
        Special == {[b EXCEPT !.specials = sp] :
                       b \in Strategies, sp \in {OneSpecial, TwoSpecials}}
                   \cup {[b EXCEPT !.specials = OneSpecial,
                                   !.missing_treatment = MostFrequent] :
                            b \in Strategies}
    IN UNION {{[b EXCEPT !.tie = t] : t \in TiesOf(b)} : b \in Treated \cup Special}

\* ------------------------------------------------------ BucketingProcess
\* BucketingProcess.__init__: the specials are set on every step of the
\* prebucketing pipeline; _bucketing_specials starts as an empty dict.
BucketingProcess(prebucketing_pipeline, bucketing_pipeline, specials) ==
    [prebucketing_pipeline |->
        [k \in DOMAIN prebucketing_pipeline |->
            [prebucketing_pipeline[k] EXCEPT !.specials = specials]],
     bucketing_pipeline |-> bucketing_pipeline,
     specials |-> specials,
     _prebucketing_specials |-> specials,
     _bucketing_specials |-> <<>>,
     has_prebucket_tables |-> FALSE, prebucket_tables_ |-> <<>>,
     has_bucket_tables |-> FALSE, bucket_tables_ |-> <<>>,
     has_summary |-> FALSE, summary_dict |-> <<>>]

\* A process that no scenario uses.
NoProcess == BucketingProcess(<<>>, <<>>, <<>>)

\* A BucketingProcess(...) call: whether it was made, the object it returned
\* and what it raised.
Constructed(made, process, raised) == [made |-> made, bp |-> process, err |-> raised]

\* No second object has been constructed.
NoOther == Constructed(FALSE, NoProcess, NoError)

\* ---------------------------------------------- BucketingProcess at work
\* build_bucket_table for every column of X the mapping covers.
BucketTables(fbm_, frame) ==
    [column \in Range(frame.columns) \cap DOMAIN fbm_ |->
        BuildBucketTable(frame.data[column], fbm_[column])]

\* The number of rows of a column's table (its distinct bucket ids), None
\* when the column has no table.
BucketCount(tables, column) ==
    IF column \in DOMAIN tables THEN Some(Cardinality(DOMAIN tables[column]))
    ELSE None

\* _generate_summary: for every column of X the numbers of its prebuckets
\* and of its buckets, summary_dict[column] = [prebuckets, buckets, ...]; the
\* list is indexed from 1 here.
GenerateSummary(frame, prebucket_tables, bucket_tables) ==
    [column \in Range(frame.columns) |->
        <<BucketCount(prebucket_tables, column),
          BucketCount(bucket_tables, column)>>]

\* The summary left as it was.
UpdateSummaryNot(summary_dict, bucket_tables) == summary_dict
\* "self.summary_dict[column][1] = len(...unique())" for every column that
\* got a new bucket table.
UpdateSummary(summary_dict, bucket_tables) ==
    [column \in DOMAIN summary_dict |->
        IF column \in DOMAIN bucket_tables
        THEN <<summary_dict[column][1], BucketCount(bucket_tables, column)>>
        ELSE summary_dict[column]]

\* The loop over self._prebucketing_specials: the labels of a variable with a
\* non-empty remapping get that remapping in self._bucketing_specials.
RemapAll(bucketing_specials, prebucketing_specials, fbm_) ==
    [var \in {v \in DOMAIN prebucketing_specials :
                Len(FindRemappedSpecials(Some(Labels(fbm_[v])),
                                         Some(prebucketing_specials[v]))) > 0} |->
        FindRemappedSpecials(Some(Labels(fbm_[var])),
                             Some(prebucketing_specials[var]))]
    @@ bucketing_specials

\* The bucketing steps left with the specials they were built with.
AssignSpecialsNot(steps, specials) == steps

\* "step.specials = self._bucketing_specials" for every bucketing step.
AssignSpecials(steps, specials) ==
    [k \in DOMAIN steps |-> [steps[k] EXCEPT !.specials = specials]]

\* The columns of the mapping of the pipeline steps that the mapping of the
\* pipeline others does not hold, as the message lists them.
NotCovered(steps, others, frame) ==
    SelectSeq2(frame.columns,
               {k \in DOMAIN frame.columns :
                   /\ frame.columns[k] \in DOMAIN PipelineMapping(steps)
                   /\ frame.columns[k] \notin DOMAIN PipelineMapping(others)})

\* The two checks with the second one first.
CoverageErrorBucketedFirst(not_prebucketed, not_bucketed) ==
    IF Len(not_bucketed) > 0
    THEN Error("NotBucketedError", not_bucketed)
    ELSE IF Len(not_prebucketed) > 0
    THEN Error("NotPreBucketedError", not_prebucketed)
    ELSE NoError

\* The two coverage checks of fit, in their order: what is raised.
CoverageError(not_prebucketed, not_bucketed) ==
    IF Len(not_prebucketed) > 0
    THEN Error("NotPreBucketedError", not_prebucketed)
    ELSE IF Len(not_bucketed) > 0
    THEN Error("NotBucketedError", not_bucketed)
    ELSE NoError

\* fit, first part: the prebucketing pipeline is fit on X and transforms it;
\* the prebucket tables are built on X.
FitPrebucket ==
    /\ \E ran \in {PipelineFitTransform(bp.prebucketing_pipeline, X, y)} :
          IF ran.err # "none"
          THEN /\ bp' = [bp EXCEPT !.prebucketing_pipeline = ran.steps]
               /\ err' = Error(ran.err, <<>>)
               /\ pc' = "failed"
               /\ UNCHANGED X_prebucketed_
          ELSE /\ bp' = [bp EXCEPT !.prebucketing_pipeline = ran.steps,
                                   !.has_prebucket_tables = TRUE,
                                   !.prebucket_tables_ =
                                       BucketTables(PipelineMapping(ran.steps), X)]
               /\ err' = NoError
               /\ pc' = "prebucketed"
               /\ X_prebucketed_' = ran.X
    /\ UNCHANGED <<bk, X, y, out, phase, seen, fbm, remapped, call, uib_out>>

\* The first call of fit begins.
BpFitPrebucket ==
    /\ pc = "unfit"
    /\ FitPrebucket
    /\ UNCHANGED <<first, other, defaulted>>

\* fit, second part: the specials are found again among the prebuckets and
\* assigned to every step of the bucketing pipeline.  The lookup of a
\* variable the prebucketing mapping does not hold fails.
BpRemapSpecials ==
    /\ pc = "prebucketed"
    /\ \E pre \in {PipelineMapping(bp.prebucketing_pipeline)} :
          IF ~(DOMAIN bp._prebucketing_specials \subseteq DOMAIN pre)
          THEN /\ err' = Error("KeyError", <<>>)
               /\ pc' = "failed"
               /\ UNCHANGED bp
          ELSE \E new \in {RemapAll(bp._bucketing_specials,
                                    bp._prebucketing_specials, pre)} :
                  /\ bp' = [bp EXCEPT !._bucketing_specials = new,
                                      !.bucketing_pipeline =
                                          AssignSpecials(@, new)]
                  /\ pc' = "remapped"
                  /\ UNCHANGED err
    /\ UNCHANGED <<bk, X, y, out, phase, X_prebucketed_, seen, fbm, remapped, call, uib_out, first, other, defaulted>>

\* fit, third part: the bucketing pipeline is fit on X_prebucketed_.
BpFitBucket ==
    /\ pc = "remapped"
    /\ \E ran \in {PipelineFitTransform(bp.bucketing_pipeline, X_prebucketed_, y)} :
          /\ bp' = [bp EXCEPT !.bucketing_pipeline = ran.steps]
          /\ err' = Error(ran.err, <<>>)
          /\ pc' = IF ran.err # "none" THEN "failed" ELSE "bucketed"
    /\ seen' = X_prebucketed_
    /\ UNCHANGED <<bk, X, y, out, phase, X_prebucketed_, fbm, remapped, call, uib_out, first, other, defaulted>>

\* fit, last part: the two coverage checks, then the bucket tables (built on
\* X_prebucketed_) and the summary.
BpCheckCoverage ==
    /\ pc = "bucketed"
    /\ \E not_prebucketed \in {NotCovered(bp.bucketing_pipeline,
                                          bp.prebucketing_pipeline, X)},
          not_bucketed \in {NotCovered(bp.prebucketing_pipeline,
                                       bp.bucketing_pipeline, X)} :
          IF CoverageError(not_prebucketed, not_bucketed) # NoError
          THEN /\ err' = CoverageError(not_prebucketed, not_bucketed)
               /\ pc' = "failed"
               /\ UNCHANGED bp
          ELSE \E tables \in {BucketTables(PipelineMapping(bp.bucketing_pipeline),
                                            X_prebucketed_)} :
                  bp' = [bp EXCEPT !.has_bucket_tables = TRUE,
                                   !.bucket_tables_ = tables,
                                   !.has_summary = TRUE,
                                   !.summary_dict =
                                       GenerateSummary(X, bp.prebucket_tables_,
                                                       tables)]
               /\ pc' = "fitted"
               /\ UNCHANGED err
    /\ UNCHANGED <<bk, X, y, out, phase, X_prebucketed_, seen, fbm, remapped, call, uib_out, first, other, defaulted>>

\* check_is_fitted(self): fit has set an attribute with a trailing
\* underscore.
BpIsFitted == bp.has_prebucket_tables \/ bp.has_bucket_tables

\* transform(X): X through the prebucketing and then the bucketing pipeline.
ProcessTransform ==
    /\ IF ~BpIsFitted
       THEN /\ err' = Error("NotFittedError", <<>>)
            /\ UNCHANGED out
       ELSE /\ out' = PipelineTransform(bp.bucketing_pipeline,
                          PipelineTransform(bp.prebucketing_pipeline, X))
            /\ err' = NoError
    /\ UNCHANGED <<bk, X, y, phase, bp, pc, X_prebucketed_, seen, fbm, remapped, call, uib_out, first, other, defaulted>>

\* transform(X), before fit or after a fit that returned.
BpTransform ==
    /\ pc \in {"unfit", "fitted"}
    /\ ProcessTransform

\* The property features_bucket_mapping_: the merge of the two pipelines'
\* mappings.
ProcessMapping ==
    /\ IF ~BpIsFitted
       THEN /\ err' = Error("NotFittedError", <<>>)
            /\ UNCHANGED fbm
       ELSE \E pre \in {PipelineMapping(bp.prebucketing_pipeline)},
               buck \in {PipelineMapping(bp.bucketing_pipeline)} :
               IF Cardinality(DOMAIN pre) # Cardinality(DOMAIN buck)
               THEN /\ err' = Error("AssertionError", <<>>)
                    /\ UNCHANGED fbm
               ELSE /\ fbm' = Some(MergeFeaturesBucketMapping(pre, buck))
                    /\ err' = NoError
    /\ UNCHANGED <<bk, X, y, out, phase, bp, pc, X_prebucketed_, seen, remapped, call, uib_out, first, other, defaulted>>

\* features_bucket_mapping_, read before fit or after a fit that returned.
BpMapping ==
    /\ pc \in {"unfit", "fitted"}
    /\ ProcessMapping

\* ------------------------------------------------- one bucketer's life
\* BUCK = bucketer(...), a dataframe X and a target y.
InitBucketer ==
    /\ bk \in Bucketers
    /\ X \in {Frame(col) : col \in Columns}
    /\ y \in IF bk.strategy = "OrdinalCategorical" /\ bk.encoding_method = "ordered"
             THEN Targets ELSE {SomeTarget}
    /\ out = NoFrame
    /\ err = NoError
    /\ phase = "new"
    /\ bp = NoProcess
    /\ pc = "unfit"
    /\ X_prebucketed_ = NoFrame
    /\ seen = NoFrame
    /\ fbm = None
    /\ remapped = None
    /\ uib_out = NoFrame
    /\ first = None
    /\ other = NoOther
    /\ defaulted = {}
    /\ call = NoCall

\* BUCK.fit(X, y).
BkFit ==
    /\ phase = "new"
    /\ \E r \in {Fit(bk, X, y)} :
          /\ bk' = r.b
          /\ err' = FitError(r)
          /\ seen' = Handed(r)
    /\ phase' = "fit"
    /\ UNCHANGED <<X, y, out, bp, pc, X_prebucketed_, fbm, remapped, call, uib_out, first, other, defaulted>>

\* BUCK.transform(X): check_is_fitted raises NotFittedError and changes
\* nothing when fit has not set features_bucket_mapping_.
BkTransform ==
    /\ phase \in {"new", "fit"}
    /\ bk.fitted
    /\ out' = Transform(bk, X)
    /\ err' = NoError
    /\ phase' = "transform"
    /\ UNCHANGED <<bk, X, y, bp, pc, X_prebucketed_, seen, fbm, remapped, call, uib_out, first, other, defaulted>>

NextBucketer == BkFit \/ BkTransform

SpecBucketer == InitBucketer /\ [][NextBucketer]_vars

\* ------------------------------ one bucketer's life, from the constructor
\* The values tried for n_bins: integers around 1, 4.2 and [2].
BinsArguments ==
    {PyInt(n) : n \in -1 .. 2} \cup {Py("float", 42, 10), Py("list", 0, 1)}
\* For tol: numbers around 0 and around 1.
TolArguments ==
    {Py("float", n, 100) : n \in {-1, 0, 5, 100, 101}}
\* For max_n_categories: None, integers around 0 and 2.5.
CategoriesArguments ==
    {PyNone, PyInt(-1), PyInt(0), PyInt(2), Py("float", 25, 10)}
RemainderArguments == {"passthrough", "drop", "other"}
\* For features_bucket_mapping: a dict, a FeaturesBucketMapping, a list, None.
MappingArguments ==
    {[type |-> "dict",
      maps |-> [c \in {"a"} |-> [type |-> "numerical", map |-> <<2>>]]],
     [type |-> "FeaturesBucketMapping",
      maps |-> [c \in {"a"} |->
                  BucketMapping("numerical", <<2>>, 1, FALSE, <<>>, FALSE, <<>>,
                                None)]],
     [type |-> "list", maps |-> <<>>],
     [type |-> "NoneType", maps |-> <<>>]}

\* The constructor calls considered.
Calls ==
    {Call(s, n, r, NoCall.tol, NoCall.max_n_categories,
          NoCall.features_bucket_mapping) :
        s \in {"EqualWidth", "EqualFrequency", "AgglomerativeClustering"},
        n \in BinsArguments, r \in RemainderArguments}
    \cup {Call("OrdinalCategorical", NoCall.n_bins, r, t, m,
               NoCall.features_bucket_mapping) :
            r \in RemainderArguments, t \in TolArguments,
            m \in CategoriesArguments}
    \cup {Call(s, NoCall.n_bins, r, NoCall.tol, NoCall.max_n_categories,
               NoCall.features_bucket_mapping) :
            s \in {"Optimal", "DecisionTree", "AsIsCategorical", "AsIsNumerical"},
            r \in RemainderArguments}
    \cup {Call("UserInput", NoCall.n_bins, "passthrough", NoCall.tol,
               NoCall.max_n_categories, f) : f \in MappingArguments}

InitConstruct ==
    /\ call \in Calls
    /\ bk = NoBucketer
    /\ X \in {Frame(col) : col \in Columns}
    /\ y = SomeTarget
    /\ out = NoFrame
    /\ err = NoError
    /\ phase = "call"
    /\ bp = NoProcess
    /\ pc = "unfit"
    /\ X_prebucketed_ = NoFrame
    /\ seen = NoFrame
    /\ fbm = None
    /\ remapped = None
    /\ uib_out = NoFrame
    /\ first = None
    /\ other = NoOther
    /\ defaulted = {}

\* BUCK = bucketer(...): when __init__ raises there is no object.
BkNew ==
    /\ phase = "call"
    /\ \E r \in {New(call)} :
          /\ bk' = r.b
          /\ err' = Error(r.err, <<>>)
          /\ phase' = IF r.err = "none" THEN "new" ELSE "raised"
    /\ UNCHANGED <<X, y, out, bp, pc, X_prebucketed_, seen, fbm, remapped, call, uib_out, first, other, defaulted>>

NextConstruct == BkNew \/ BkFit \/ BkTransform

SpecConstruct == InitConstruct /\ [][NextConstruct]_vars

\* ------------------------------- one bucketer's life, at the limit of 100
\* Columns of about PreBucketLimit distinct values: 1 .. m, then possibly a
\* null and a repeat of the value 1.
LimitSizes == (PreBucketLimit - 1) .. (PreBucketLimit + 2)
LimitTails == {<<>>, <<NaN>>, <<1>>, <<NaN, 1>>}
LimitColumns == {[i \in 1 .. m |-> i] \o t : m \in LimitSizes, t \in LimitTails}
LimitTarget(col) == [i \in DOMAIN col |-> i % 2]

\* The bucketers with a precondition on their input, with and without a
\* special group on "a" (the value 4).
LimitBucketers ==
    LET Strategies ==
            {[Bucketer("Optimal") EXCEPT !.variables_type = t, !.oracle = o] :
                t \in {"numerical", "categorical"}, o \in {{}, {50}}}
            \cup {[Bucketer("AsIsNumerical") EXCEPT !.right = r] : r \in BOOLEAN}
            \cup {[Bucketer("DecisionTree") EXCEPT !.max_n_bins = m, !.oracle = o] :
                    m \in {1, 2, 3}, o \in {{}, {50}}}
    IN Strategies \cup {[b EXCEPT !.specials = OneSpecial] : b \in Strategies}

InitLimit ==
    /\ bk \in LimitBucketers
    /\ X \in {Frame(col) : col \in LimitColumns}
    /\ y = LimitTarget(X.data["a"])
    /\ out = NoFrame
    /\ err = NoError
    /\ phase = "new"
    /\ bp = NoProcess
    /\ pc = "unfit"
    /\ X_prebucketed_ = NoFrame
    /\ seen = NoFrame
    /\ fbm = None
    /\ remapped = None
    /\ uib_out = NoFrame
    /\ first = None
    /\ other = NoOther
    /\ defaulted = {}
    /\ call = NoCall

SpecLimit == InitLimit /\ [][NextBucketer]_vars

\* --------------------------------------------- one BucketingProcess's life
\* A dataframe of two columns: "a" as given, "b" without nulls.
Frame2(col) ==
    DataFrame(<<"a", "b">>,
              [c \in {"a", "b"} |->
                 IF c = "a" THEN col
                 ELSE [i \in 1 .. NRows |-> IF i % 2 = 1 THEN 1 ELSE 2]])

\* The columns a process is fit on: the rows in ascending order, nulls first.
SortedColumns ==
    {col \in Columns : \A i, j \in 1 .. NRows : i < j => col[i] <= col[j]}

\* The prebucketing and bucketing pipelines on the one column "a".
PrePipelines ==
    {<<[Bucketer("DecisionTree") EXCEPT !.max_n_bins = MaxBins, !.oracle = o]>> :
        o \in Oracles}
    \cup {<<[Bucketer("EqualWidth") EXCEPT !.n_bins = n, !.missing_treatment = m]>> :
            n \in 2 .. MaxBins, m \in {Separate, MostFrequent}}
BucketPipelines ==
    {<<[Bucketer("Optimal") EXCEPT !.oracle = o]>> : o \in Oracles}
    \cup {<<[Bucketer("AsIsNumerical") EXCEPT !.right = r]>> : r \in BOOLEAN}

\* The pipelines on two columns: one step for the listed variables (<<>>:
\* all columns), or one step per column.
VariableLists == {<<>>, <<"a">>, <<"b">>}
PrePipelines2 ==
    {<<[Bucketer("EqualWidth") EXCEPT !.n_bins = 2, !.variables = v]>> :
        v \in VariableLists}
    \cup {<<[Bucketer("EqualWidth") EXCEPT !.n_bins = 2, !.variables = <<"a">>],
            [Bucketer("EqualWidth") EXCEPT !.n_bins = 2, !.variables = <<"b">>]>>}
BucketPipelines2 ==
    {<<[Bucketer("Optimal") EXCEPT !.oracle = o, !.variables = v]>> :
        o \in {{}, {1}}, v \in VariableLists}
    \cup {<<[Bucketer("Optimal") EXCEPT !.oracle = o, !.variables = <<"a">>],
            [Bucketer("Optimal") EXCEPT !.oracle = o, !.variables = <<"b">>]>> :
            o \in {{}, {1}}}

\* The variables a pipeline will bucket in a dataframe of columns "a", "b".
Buckets(steps, c) ==
    \E k \in DOMAIN steps : steps[k].variables = <<>> \/ c \in Range(steps[k].variables)

\* The constructor calls considered, with the dataframe to fit on.  Specials
\* are declared on column "a", which the prebucketing pipeline then buckets.
Processes ==
    {[bp |-> BucketingProcess(pre, buck, sp), X |-> Frame(col)] :
        pre \in PrePipelines, buck \in BucketPipelines,
        sp \in {<<>>, OneSpecial, TwoSpecials}, col \in SortedColumns}
    \cup {[bp |-> BucketingProcess(q[1], q[2], q[3]), X |-> Frame2(col)] :
            q \in {p \in PrePipelines2 \X BucketPipelines2 \X {<<>>, OneSpecial} :
                      p[3] = <<>> \/ Buckets(p[1], "a")},
            col \in SortedColumns}

\* bucketing_process = BucketingProcess(...), a dataframe X and a target y; or
\* nothing but the module, whose function _find_remapped_specials is called.
InitProcess ==
    /\ \/ /\ \E p \in Processes : bp = p.bp /\ X = p.X
          /\ pc = "unfit"
       \/ /\ bp = NoProcess
          /\ X = NoFrame
          /\ pc = "module"
    /\ y = SomeTarget
    /\ out = NoFrame
    /\ err = NoError
    /\ X_prebucketed_ = NoFrame
    /\ seen = NoFrame
    /\ fbm = None
    /\ remapped = None
    /\ uib_out = NoFrame
    /\ first = None
    /\ other = NoOther
    /\ defaulted = {}
    /\ call = NoCall
    /\ bk = Bucketer("EqualWidth")
    /\ phase = "new"

\* The arguments _find_remapped_specials is called with: the labels of a
\* mapping, or None; the special groups of a variable, or None.
LabelArguments ==
    {None} \cup {Some(Labels(BucketMapping("numerical", <<3>>, 2, FALSE, <<>>,
                                           TRUE, sp, mb))) :
                    sp \in {<<>>, OneSpecial["a"], TwoSpecials["a"]},
                    mb \in {{}, {SpecialBase}}}
SpecialArguments ==
    {None} \cup {Some(sp) : sp \in {<<>>, OneSpecial["a"], TwoSpecials["a"]}}

\* A call of the module's function _find_remapped_specials.
FindRemappedSpecialsCall ==
    /\ pc = "module"
    /\ \E bucket_labels \in LabelArguments, var_specials \in SpecialArguments :
          remapped' = Some([bucket_labels |-> bucket_labels,
                            var_specials |-> var_specials,
                            value |-> FindRemappedSpecials(bucket_labels,
                                                           var_specials)])
    /\ pc' = "returned"
    /\ UNCHANGED <<bk, X, y, out, err, phase, bp, X_prebucketed_, seen, fbm, call, uib_out, first, other, defaulted>>

NextProcess ==
    \/ BpFitPrebucket
    \/ BpRemapSpecials
    \/ BpFitBucket
    \/ BpCheckCoverage
    \/ BpTransform
    \/ BpMapping
    \/ FindRemappedSpecialsCall

SpecProcess == InitProcess /\ [][NextProcess]_vars

\* ------------------------------- estimators before, during and after fit
\* check_is_fitted(BUCK) of scikit-learn: the object has an attribute with a
\* trailing underscore.
CheckIsFitted(b) == b.has_tables \/ b.fitted

\* check_is_fitted(BUCK), called at any time in the life of a bucketer.
BkCheckIsFitted ==
    /\ phase \in {"new", "fit", "transform"}
    /\ err' = IF CheckIsFitted(bk) THEN NoError ELSE Error("NotFittedError", <<>>)
    /\ UNCHANGED <<bk, X, y, out, phase, bp, pc, X_prebucketed_, seen, fbm,
                   remapped, call, uib_out, first, other, defaulted>>

\* save_yml(fout): the merged mapping is read and written to fout.
BpSaveYml ==
    /\ pc \in {"unfit", "fitted"}
    /\ IF ~BpIsFitted
       THEN /\ err' = Error("NotFittedError", <<>>)
            /\ UNCHANGED fbm
       ELSE \E pre \in {PipelineMapping(bp.prebucketing_pipeline)},
               buck \in {PipelineMapping(bp.bucketing_pipeline)} :
               IF Cardinality(DOMAIN pre) # Cardinality(DOMAIN buck)
               THEN /\ err' = Error("AssertionError", <<>>)
                    /\ UNCHANGED fbm
               ELSE /\ fbm' = Some(MergeFeaturesBucketMapping(pre, buck))
                    /\ err' = NoError
    /\ UNCHANGED <<bk, X, y, out, phase, bp, pc, X_prebucketed_, seen, remapped, call, uib_out, first, other, defaulted>>

\* The table prebucket_table(column) returns: the prebuckets of the column
\* and the bucket of each.
PrebucketTable(table, bucket_mapping) ==
    The({DataFrame(<<"pre-bucket", "bucket">>,
                   [c \in {"pre-bucket", "bucket"} |->
                      [k \in DOMAIN ids |->
                         IF c = "bucket" THEN TransformValue(bucket_mapping, ids[k])
                         ELSE ids[k]]]) :
           ids \in {SortSet(DOMAIN table)}})

\* prebucket_table(column).
BpPrebucketTable ==
    /\ pc \in {"unfit", "fitted"}
    /\ \E column \in Range(FeatureOrder) :
          IF ~BpIsFitted
          THEN /\ err' = Error("NotFittedError", <<>>)
               /\ UNCHANGED out
          ELSE IF column \notin DOMAIN bp.prebucket_tables_
          THEN /\ err' = Error("ValueError", <<column>>)
               /\ UNCHANGED out
          ELSE /\ out' = PrebucketTable(bp.prebucket_tables_[column],
                              PipelineMapping(bp.bucketing_pipeline)[column])
               /\ err' = NoError
    /\ UNCHANGED <<bk, X, y, phase, bp, pc, X_prebucketed_, seen, fbm, remapped, call, uib_out, first, other, defaulted>>

\* uib = UserInputBucketer(BUCK.features_bucket_mapping_); uib.transform(X),
\* after X_trans = BUCK.fit_transform(X, y).
BkUserInput ==
    /\ phase = "transform"
    /\ uib_out = NoFrame
    /\ \E uib \in {New(Call("UserInput", NoCall.n_bins, "passthrough", NoCall.tol,
                             NoCall.max_n_categories,
                             [type |-> "FeaturesBucketMapping",
                              maps |-> bk.features_bucket_mapping_]))} :
          /\ uib_out' = Transform(uib.b, X)
          /\ err' = Error(uib.err, <<>>)
    /\ UNCHANGED <<bk, X, y, out, phase, bp, pc, X_prebucketed_, seen, fbm,
                   remapped, call, first, other, defaulted>>

\* BUCK.fit(X, y) once more, on the same X and y.
BkRefit ==
    /\ phase = "fit"
    /\ first = None
    /\ first' = Some([bk |-> bk, bp |-> bp])
    /\ \E r \in {Fit(bk, X, y)} :
          /\ bk' = r.b
          /\ err' = FitError(r)
          /\ seen' = Handed(r)
    /\ UNCHANGED <<X, y, out, phase, bp, pc, X_prebucketed_, fbm, remapped,
                   call, uib_out, other, defaulted>>

\* bucketing_process.fit(X, y) is called once more, on the same X and y: its
\* first part; the other parts follow as in the first call.
BpRefit ==
    /\ pc \in {"fitted", "failed"}
    /\ first = None
    /\ first' = Some([bk |-> bk, bp |-> bp])
    /\ FitPrebucket
    /\ UNCHANGED <<other, defaulted>>

\* Mappings a caller may hand to _set_bucket_mapping after editing the
\* mapping current of the bucketing stage: current itself, all buckets of
\* every feature merged into one, the feature "a" alone, the feature "b"
\* alone with one boundary.
EditedMappings(current) ==
    {current,
     [c \in DOMAIN current |-> [current[c] EXCEPT !.map = <<>>]],
     [c \in DOMAIN current \cap {"a"} |-> current[c]],
     [c \in {"b"} |->
        BucketMapping("numerical", <<1>>, 1, FALSE, <<>>, TRUE, <<>>, None)]}

\* _set_bucket_mapping(features_bucket_mapping, X_prebucketed, y) with
\* X_prebucketed = prebucketing_pipeline.transform(X): the bucketing stage
\* becomes UserInputBucketer(features_bucket_mapping), the bucket tables are
\* built again and the summary is updated.  A covered column without an
\* entry in the summary fails the assert, the stage already replaced.
SetBucketMapping ==
    /\ \E features_bucket_mapping \in EditedMappings(PipelineMapping(bp.bucketing_pipeline)) :
          /\ call' = Call("UserInput", NoCall.n_bins, "passthrough", NoCall.tol,
                          NoCall.max_n_categories,
                          [type |-> "FeaturesBucketMapping",
                           maps |-> features_bucket_mapping])
          /\ \E uib \in {New(call').b},
                tables \in {BucketTables(features_bucket_mapping, X_prebucketed_)} :
                IF ~(DOMAIN tables \subseteq DOMAIN bp.summary_dict)
                THEN /\ bp' = [bp EXCEPT !.bucketing_pipeline = <<uib>>,
                                         !.bucket_tables_ = <<>>]
                     /\ err' = Error("AssertionError", <<>>)
                     /\ pc' = "failed"
                ELSE /\ bp' = [bp EXCEPT !.bucketing_pipeline = <<uib>>,
                                         !.bucket_tables_ = tables,
                                         !.summary_dict = UpdateSummary(@, tables)]
                     /\ err' = NoError
                     /\ pc' = "edited"
    /\ UNCHANGED <<bk, X, y, out, phase, X_prebucketed_, seen, fbm, remapped,
                   uib_out, first, other, defaulted>>

\* The first call of _set_bucket_mapping after fit.
BpSetBucketMapping ==
    /\ pc = "fitted"
    /\ SetBucketMapping

\* The eight fitting bucketers.
FittingBucketers ==
    {"Optimal", "EqualWidth", "EqualFrequency", "AgglomerativeClustering",
     "DecisionTree", "OrdinalCategorical", "AsIsCategorical", "AsIsNumerical"}

\* The bucketers built with default arguments; those built for the column
\* "a" to drop the other columns, with a special group or with
\* "most_frequent"; and some whose fit raises.
LifeBucketers ==
    {Bucketer(s) : s \in FittingBucketers}
    \cup {[Bucketer(s) EXCEPT !.variables = <<"a">>, !.remainder = "drop",
                              !.specials = sp, !.missing_treatment = m] :
            s \in FittingBucketers, sp \in {<<>>, OneSpecial},
            m \in {Separate, MostFrequent}}
    \cup {[Bucketer("DecisionTree") EXCEPT !.max_n_bins = m, !.specials = sp] :
            m \in {1, 2}, sp \in {<<>>, OneSpecial}}

\* The processes whose life is followed: those prebucketing in two
\* equal-width bins.
LifeProcesses ==
    {p \in Processes :
        /\ p.bp.prebucketing_pipeline[1].strategy = "EqualWidth"
        /\ p.bp.prebucketing_pipeline[1].n_bins = 2}

\* Either a bucketer with a dataframe, or a BucketingProcess with one.
InitLife ==
    /\ \/ /\ bk \in LifeBucketers
          /\ X \in {Frame(col) : col \in SortedColumns} \cup {Frame2(col) : col \in SortedColumns}
          /\ phase = "new"
          /\ bp = NoProcess
          /\ pc = "none"
       \/ /\ \E p \in LifeProcesses : bp = p.bp /\ X = p.X
          /\ pc = "unfit"
          /\ bk = NoBucketer
          /\ phase = "none"
    /\ y = SomeTarget
    /\ out = NoFrame
    /\ err = NoError
    /\ X_prebucketed_ = NoFrame
    /\ seen = NoFrame
    /\ fbm = None
    /\ remapped = None
    /\ uib_out = NoFrame
    /\ first = None
    /\ other = NoOther
    /\ defaulted = {}
    /\ call = NoCall

NextLife ==
    \/ BkFit
    \/ BkTransform
    \/ BkCheckIsFitted
    \/ BkUserInput
    \/ BkRefit
    \/ BpRefit
    \/ BpFitPrebucket
    \/ BpRemapSpecials
    \/ BpFitBucket
    \/ BpCheckCoverage
    \/ BpTransform
    \/ BpMapping
    \/ BpSaveYml
    \/ BpPrebucketTable
    \/ BpSetBucketMapping

SpecLife == InitLife /\ [][NextLife]_vars


\* ------------------------------------------------ properties of one bucketer
\* The rows of a column that are null, and the rows of an output column that
\* carry bucket id b.
NullRows(col) == {i \in DOMAIN col : col[i] = NaN}
RowsWith(ids, b) == {i \in DOMAIN ids : ids[i] = b}
\* The rows of a column that are neither null nor special for the mapping bm.
NormalRows(bm, col) ==
    {i \in DOMAIN col : col[i] # NaN /\ col[i] \notin SpecialValues(bm.specials)}
\* The fitted features and, after transform, the features of the output.
Fitted == IF bk.fitted THEN DOMAIN bk.features_bucket_mapping_ ELSE {}
Transformed == IF phase = "transform" THEN Fitted ELSE {}

\* C6, as stated: for any strategy and any bucketed column with nulls, the
\* number of output rows equal to the column's missing bucket id (the
\* explicit id, or -1) equals the number of null input rows.
C6_MissingCountEqual ==
    \A c \in Transformed :
        LET bm == bk.features_bucket_mapping_[c]
        IN NullRows(X.data[c]) # {}
           => Cardinality(RowsWith(out.data[c], MissingBucketOf(bm)))
                = Cardinality(NullRows(X.data[c]))

\* C6, amended: every null row of a bucketed column carries the column's
\* missing bucket id, so that the rows with that id are at least the null
\* rows; under missing_treatment "separate", or a dict that does not list the
\* column, that id is -1 and the rows with it are exactly the null rows.
C6_MissingCount ==
    \A c \in Transformed :
        LET bm == bk.features_bucket_mapping_[c]
            hits == RowsWith(out.data[c], MissingBucketOf(bm))
            dedicated == \/ bk.missing_treatment.kind = "separate"
                         \/ /\ bk.missing_treatment.kind = "dict"
                            /\ c \notin DOMAIN bk.missing_treatment.dict
        IN NullRows(X.data[c]) # {}
           => /\ NullRows(X.data[c]) \subseteq hits
              /\ dedicated => /\ MissingBucketOf(bm) = MissingId
                               /\ hits = NullRows(X.data[c])

\* A column with nulls and with normal values, bucketed under the default
\* treatment and transformed.
C6_Witness ==
    \E c \in Transformed :
        /\ NullRows(X.data[c]) # {}
        /\ NormalRows(bk.features_bucket_mapping_[c], X.data[c]) # {}
        /\ bk.features_bucket_mapping_[c].missing_bucket = {}
        /\ RowsWith(out.data[c], MissingId) = NullRows(X.data[c])

\* C7: with missing_treatment a dict {column: bucket number}, after fit every
\* null of a listed column is transformed to the given bucket number, none to
\* -1, and the label of that bucket (when the mapping has the bucket) contains
\* "| Missing"; a bucketed column the dict does not list sends its nulls to -1.
C7_DictTreatment ==
    bk.missing_treatment.kind = "dict" =>
        \A c \in Fitted :
            LET bm == bk.features_bucket_mapping_[c]
                given == bk.missing_treatment.dict
            IN IF c \in DOMAIN given
               THEN /\ TransformValue(bm, NaN) = given[c]
                    /\ given[c] \in DOMAIN Labels(bm) => Labels(bm)[given[c]].missing
                    /\ c \in Transformed =>
                          \A i \in NullRows(X.data[c]) :
                              out.data[c][i] = given[c] /\ out.data[c][i] # MissingId
               ELSE /\ TransformValue(bm, NaN) = MissingId
                    /\ c \in Transformed =>
                          \A i \in NullRows(X.data[c]) : out.data[c][i] = MissingId

\* A listed column with nulls transformed into a bucket that also holds
\* normal values.
C7_Witness ==
    /\ bk.missing_treatment.kind = "dict"
    /\ \E c \in Transformed :
          /\ c \in DOMAIN bk.missing_treatment.dict
          /\ NullRows(X.data[c]) # {}
          /\ bk.missing_treatment.dict[c] \in DOMAIN Labels(bk.features_bucket_mapping_[c])
          /\ \E i \in NormalRows(bk.features_bucket_mapping_[c], X.data[c]) :
                out.data[c][i] = bk.missing_treatment.dict[c]

\* The rows of a bucket table with the highest Count.
TopRows(table) ==
    {r \in DOMAIN table : \A q \in DOMAIN table : table[q].Count <= table[r].Count}

\* C8: after fit with missing_treatment = "most_frequent", for every bucketed
\* feature, the row with the highest Count of the recomputed bucket table (the
\* first row of the table sorted by Count, descending) is the bucket missing
\* values are assigned to, its label contains "Missing", and it is a bucket
\* that had the most non-missing rows before the missing rows were added.
C8_MostFrequent ==
    bk.missing_treatment.kind = "most_frequent" =>
        \A c \in Fitted :
            LET bm == bk.features_bucket_mapping_[c]
                table == bk.bucket_tables_[c]
                m == TransformValue(bm, NaN)
                before(b) == Cardinality({i \in RowsWith(TransformColumn(bm, X.data[c]), b) :
                                             X.data[c][i] # NaN})
            IN /\ bm.missing_bucket = {m}
               /\ m \in TopRows(table)
               /\ TableByCount(table, bk.tie)[1] = m
               /\ table[m].label.missing
               /\ \A b \in DOMAIN table : before(b) <= before(m)

\* A column with nulls whose bucket table has several rows after the fit
\* with "most_frequent": the nulls are in the top row.
C8_Witness ==
    /\ bk.missing_treatment.kind = "most_frequent"
    /\ \E c \in Fitted :
          /\ NullRows(X.data[c]) # {}
          /\ Cardinality(DOMAIN bk.bucket_tables_[c]) >= 2
          /\ TransformValue(bk.features_bucket_mapping_[c], NaN)
                \in TopRows(bk.bucket_tables_[c])

\* C9: for every strategy and every configuration, when the batch has no
\* missing value and no specials are declared, the minimum bucket id of each
\* bucketed column in the output of fit_transform is 0 or -2.
C9_ZeroIndexed ==
    \A c \in Transformed :
        (bk.specials = <<>> /\ NullRows(X.data[c]) = {})
            => Min(Range(out.data[c])) \in {0, OtherId}

\* The ids of the normal rows of column c in the output.
NormalOut(c) ==
    {out.data[c][i] : i \in NormalRows(bk.features_bucket_mapping_[c], X.data[c])}
\* The distinct normal values of column c.
NormalValues(c) ==
    {X.data[c][i] : i \in NormalRows(bk.features_bucket_mapping_[c], X.data[c])}
SetBins == {"EqualWidth", "EqualFrequency", "AgglomerativeClustering"}

\* C10, as stated: for the three bucketers with n_bins, n_bins = 1 sends all
\* normal values to exactly one bucket id, and n_bins = k >= 2 on a column
\* with at least k distinct normal values gives exactly k distinct bucket ids.
C10_ExactlyNBins ==
    bk.strategy \in SetBins =>
        \A c \in Transformed :
            /\ (bk.n_bins = 1 /\ NormalValues(c) # {})
                  => Cardinality(NormalOut(c)) = 1
            /\ (bk.n_bins >= 2 /\ Cardinality(NormalValues(c)) >= bk.n_bins)
                  => Cardinality(NormalOut(c)) = bk.n_bins

\* C10, amended: n_bins = 1 sends all normal values to exactly one bucket id;
\* n_bins = k >= 2 gives at most k distinct bucket ids for the normal values,
\* and exactly k for AgglomerativeClustering on a column with at least k
\* distinct normal values.
C10_AtMostNBins ==
    bk.strategy \in SetBins =>
        \A c \in Transformed :
            /\ (bk.n_bins = 1 /\ NormalValues(c) # {})
                  => Cardinality(NormalOut(c)) = 1
            /\ Cardinality(NormalOut(c)) <= bk.n_bins
            /\ (bk.strategy = "AgglomerativeClustering"
                /\ Cardinality(NormalValues(c)) >= bk.n_bins)
                  => Cardinality(NormalOut(c)) = bk.n_bins

\* Equal width with three bins on three distinct values, one bin empty.
C10_Witness ==
    /\ bk.strategy = "EqualWidth"
    /\ bk.n_bins >= 3
    /\ \E c \in Transformed :
          /\ Cardinality(NormalValues(c)) >= bk.n_bins
          /\ Cardinality(NormalOut(c)) = bk.n_bins - 1

\* ------------------------------------------ properties of a BucketingProcess
\* The mappings of the two stages, and the columns each covers.
PreMapping == PipelineMapping(bp.prebucketing_pipeline)
BucketMappingOfProcess == PipelineMapping(bp.bucketing_pipeline)
\* fit has come to its coverage checks: both pipelines are fit.
BothFit ==
    /\ pc \in {"fitted", "failed"}
    /\ PipelineFitted(bp.prebucketing_pipeline)
    /\ PipelineFitted(bp.bucketing_pipeline)
BucketedNotPrebucketed == DOMAIN BucketMappingOfProcess \ DOMAIN PreMapping
PrebucketedNotBucketed == DOMAIN PreMapping \ DOMAIN BucketMappingOfProcess

\* C1: for a fitted BucketingProcess, the merged features_bucket_mapping_
\* applied to the raw data gives, in every row of every bucketed column, the
\* bucket id that transform (prebucketing, then bucketing) gives.
C1_MergeIsSequential ==
    (pc = "fitted" /\ fbm # None /\ out # NoFrame) =>
        \A c \in DOMAIN The(fbm) : \A i \in 1 .. NRows :
            TransformValue(The(fbm)[c], X.data[c][i]) = out.data[c][i]

\* C2 as stated: fit returns only with equal coverage; a column bucketed but
\* not prebucketed gives NotPreBucketedError, and a column prebucketed but
\* not bucketed gives NotBucketedError.
C2_BothErrors ==
    BothFit =>
        /\ pc = "fitted" => DOMAIN PreMapping = DOMAIN BucketMappingOfProcess
        /\ BucketedNotPrebucketed # {} => err.kind = "NotPreBucketedError"
        /\ PrebucketedNotBucketed # {} => err.kind = "NotBucketedError"

\* C2: fit returns only when the two stages cover the same columns; a column
\* bucketed but not prebucketed gives NotPreBucketedError; when there is no
\* such column, a column prebucketed but not bucketed gives NotBucketedError.
C2_CoverageErrors ==
    BothFit =>
        /\ pc = "fitted" => DOMAIN PreMapping = DOMAIN BucketMappingOfProcess
        /\ BucketedNotPrebucketed # {} =>
              pc = "failed" /\ err.kind = "NotPreBucketedError"
        /\ (BucketedNotPrebucketed = {} /\ PrebucketedNotBucketed # {}) =>
              pc = "failed" /\ err.kind = "NotBucketedError"

\* Both kinds of coverage error have been raised, and fit has returned.
C2_Witness ==
    /\ BothFit
    /\ pc = "failed"
    /\ err.kind = "NotBucketedError"
    /\ PrebucketedNotBucketed = {"b"}

\* C3: the error of a fit that fails on coverage lists every offending
\* column, those bucketed but not prebucketed and those prebucketed but not
\* bucketed.
C3_ListsEveryColumn ==
    (BothFit /\ pc = "failed") =>
        Range(err.columns) = BucketedNotPrebucketed \cup PrebucketedNotBucketed

\* C4, one step: the states of fit follow each other in order; X_prebucketed_
\* is the raw X through the fitted prebucketing pipeline; the specials are on
\* the bucketing steps before these are fit; the bucketing pipeline is fit on
\* X_prebucketed_; the bucket tables come when both pipelines are fit.
C4_Step ==
    /\ pc' # pc =>
          <<pc, pc'>> \in {<<"unfit", "prebucketed">>, <<"prebucketed", "remapped">>,
                           <<"remapped", "bucketed">>, <<"bucketed", "fitted">>,
                           <<"unfit", "failed">>, <<"prebucketed", "failed">>,
                           <<"remapped", "failed">>, <<"bucketed", "failed">>,
                           <<"module", "returned">>}
    /\ pc' = "prebucketed" =>
          /\ PipelineFitted(bp'.prebucketing_pipeline)
          /\ X_prebucketed_' = PipelineTransform(bp'.prebucketing_pipeline, X)
    /\ pc' \in {"unfit", "prebucketed", "remapped"} =>
          /\ \A k \in DOMAIN bp'.bucketing_pipeline :
                ~bp'.bucketing_pipeline[k].fitted
          /\ seen' = NoFrame
    /\ (pc = "remapped" /\ pc' # pc) =>
          /\ \A k \in DOMAIN bp.bucketing_pipeline :
                bp.bucketing_pipeline[k].specials = bp._bucketing_specials
          /\ seen' = PipelineTransform(bp.prebucketing_pipeline, X)
    /\ pc' = "bucketed" => PipelineFitted(bp'.bucketing_pipeline)
    /\ bp'.has_bucket_tables =>
          /\ pc' = "fitted"
          /\ PipelineFitted(bp'.prebucketing_pipeline)
          /\ PipelineFitted(bp'.bucketing_pipeline)
          /\ bp'.bucket_tables_ = BucketTables(BucketMappingOfProcess', seen')
    /\ pc' = "fitted" => bp'.has_bucket_tables

\* C4: fit goes unfit -> prebucketed -> bucketed -> fitted, no step skipped
\* or reordered: prebucketing is fit and applied to the raw X first, the
\* remapped specials are on the bucketing steps before the bucketing pipeline
\* is fit, that pipeline is fit on the prebucketed dataset only, and the
\* coverage check and the bucket tables come after both fits.
C4_FitOrder == [][C4_Step]_vars

\* A fit with specials has gone through all its states on a dataset that
\* the prebucketing changes.
C4_Witness ==
    /\ pc = "fitted"
    /\ "a" \in DOMAIN bp._bucketing_specials
    /\ seen # X

\* The remapping of feature f: the pairs of a declared label and the
\* prebucket whose label is "Special: <label>".
ExpectedRemap(f) ==
    {<<bp._prebucketing_specials[f][k].label, b>> :
        <<k, b>> \in {q \in (DOMAIN bp._prebucketing_specials[f])
                              \X (DOMAIN Labels(PreMapping[f])) :
                         Labels(PreMapping[f])[q[2]]
                           = SpecialLabel(bp._prebucketing_specials[f][q[1]].label)}}

\* C5: when the bucketing pipeline is fit, every bucketing step has for each
\* feature with specials exactly the entries label -> [b], b the prebucket
\* labelled "Special: <label>"; a label without such a prebucket is left
\* out, a feature without remapped label has no entry; and
\* _find_remapped_specials returns {} when an argument is None.
C5_RemappedSpecials ==
    /\ pc \in {"remapped", "bucketed", "fitted"} =>
          \A k \in DOMAIN bp.bucketing_pipeline : \A f \in DOMAIN bp.specials :
             IF ExpectedRemap(f) = {}
             THEN f \notin DOMAIN bp.bucketing_pipeline[k].specials
             ELSE /\ f \in DOMAIN bp.bucketing_pipeline[k].specials
                  /\ ~HasDuplicates([j \in DOMAIN bp.bucketing_pipeline[k].specials[f] |->
                                       bp.bucketing_pipeline[k].specials[f][j].label])
                  /\ {<<s.label, s.values>> :
                         s \in Range(bp.bucketing_pipeline[k].specials[f])}
                       = {<<p[1], {p[2]}>> : p \in ExpectedRemap(f)}
    /\ \A r \in remapped :
          (r.bucket_labels = None \/ r.var_specials = None) => r.value = <<>>

\* A fit where one of two declared labels is remapped and the other has no
\* prebucket of its own.
C5_Witness ==
    /\ pc = "remapped"
    /\ "a" \in DOMAIN bp.specials
    /\ Len(bp.specials["a"]) = 2
    /\ "a" \in DOMAIN bp.bucketing_pipeline[1].specials
    /\ Len(bp.bucketing_pipeline[1].specials["a"]) = 1

\* ------------------------------------------------- properties of the strategies
\* Values a fitted mapping is asked about: those of the column and values
\* below and above all of them.
ProbeValues == (Min(RawValues) - 2) .. (Max(RawValues) + 2)

\* The column of the scenario of EqualWidth with two bins, and its fit.
ScenarioColumn == <<10, 20, 30, 40, NaN>>
ScenarioFit ==
    FitFeature([Bucketer("EqualWidth") EXCEPT !.n_bins = 2], ScenarioColumn,
               [i \in 1 .. 5 |-> i % 2], "a")

\* C11: EqualWidthBucketer with n_bins = n fits n - 1 boundaries at
\* min + i * (max - min) / n over the non-special non-null values, with
\* right-inclusive segments, so that every non-null non-special value, also
\* one outside [min, max], gets an id in 0 .. n - 1; and [10, 20, 30, 40, NaN]
\* with two bins gets the boundary 25 and the ids [0, 0, 1, 1, -1].
C11_EqualWidthEdges ==
    /\ (bk.strategy = "EqualWidth" /\ phase # "new") =>
          \A c \in Fitted :
             LET bm == bk.features_bucket_mapping_[c]
                 n == bk.n_bins
             IN /\ bm.right
                /\ NormalValues(c) # {} =>
                      /\ Len(bm.map) = n - 1
                      /\ \A i \in 1 .. (n - 1) :
                            bm.map[i] * n
                              = bm.den * (n * Min(NormalValues(c))
                                          + i * (Max(NormalValues(c))
                                                 - Min(NormalValues(c))))
                /\ \A v \in ProbeValues \ SpecialValues(bm.specials) :
                      TransformValue(bm, v) \in 0 .. (n - 1)
    /\ ScenarioFit.err = "none"
    /\ ScenarioFit.bm.map = <<25 * ScenarioFit.bm.den>>
    /\ TransformColumn(ScenarioFit.bm, ScenarioColumn) = <<0, 0, 1, 1, MissingId>>

DistinctNormal(c) ==
    {X.data[c][i] : i \in {j \in DOMAIN X.data[c] :
        /\ X.data[c][j] # NaN
        /\ c \in DOMAIN bk.specials => X.data[c][j] \notin SpecialValues(bk.specials[c])}}
NotPreBucketed == err.kind = "NotPreBucketedError"

\* C13: OptimalBucketer.fit on a numerical feature raises NotPreBucketedError
\* exactly when the feature has more than 100 distinct values after removing
\* the special and the missing rows (100 are accepted); the error is raised
\* before a solver is built for the feature, and the fit leaves no
\* features_bucket_mapping_.  With variables_type = "categorical" the check
\* is not applied.
C13_OptimalLimit ==
    (bk.strategy = "Optimal" /\ phase # "new") =>
       /\ bk.variables_type = "numerical" =>
             /\ NotPreBucketed <=>
                   \E c \in Range(bk.variables) :
                      Cardinality(DistinctNormal(c)) > PreBucketLimit
             /\ NotPreBucketed =>
                   /\ \A c \in Range(bk.variables) :
                         Cardinality(DistinctNormal(c)) > PreBucketLimit
                            => c \notin DOMAIN bk.binners
                   /\ ~bk.fitted
                   /\ bk.features_bucket_mapping_ = <<>>
       /\ bk.variables_type = "categorical" => ~NotPreBucketed
\* A numerical fit has raised on 101 distinct normal values in a column that
\* also holds a null and a special value.
C13_Witness ==
    /\ bk.strategy = "Optimal" /\ bk.variables_type = "numerical"
    /\ phase = "fit" /\ NotPreBucketed
    /\ "a" \in DOMAIN bk.specials
    /\ NaN \in Range(X.data["a"])
    /\ Cardinality(DistinctNormal("a")) = PreBucketLimit + 1

\* C14: AsIsNumericalBucketer.fit raises NotPreBucketedError exactly when the
\* feature has more than 100 distinct non-special, non-missing values; with
\* at most 100 of them the feature is fitted, whether or not the column also
\* holds missing values.
C14_AsIsLimit ==
    (bk.strategy = "AsIsNumerical" /\ phase # "new") =>
       \A c \in Range(bk.variables) :
          /\ NotPreBucketed <=> Cardinality(DistinctNormal(c)) > PreBucketLimit
          /\ Cardinality(DistinctNormal(c)) <= PreBucketLimit => c \in Fitted

\* The number of special groups declared for column c.
SpecialGroups(c) == IF c \in DOMAIN bk.specials THEN Len(bk.specials[c]) ELSE 0
\* The fit has raised one of the three precondition errors.
PreconditionError ==
    \/ bk.strategy \in {"Optimal", "AsIsNumerical"} /\ NotPreBucketed
    \/ /\ bk.strategy = "DecisionTree" /\ err.kind = "ValueError"
       /\ \E c \in Range(bk.variables) : bk.max_n_bins - SpecialGroups(c) <= 1
\* The threshold the precondition of the strategy puts on column c.
ViolatedThreshold(c) ==
    IF bk.strategy = "DecisionTree" THEN SpecialGroups(c) + 2 ELSE PreBucketLimit

\* C15: every precondition error raised at fit time (NotPreBucketedError of
\* OptimalBucketer and of AsIsNumericalBucketer, ValueError of
\* DecisionTreeBucketer when max_n_bins minus the number of special groups is
\* <= 1) aborts the fit, and its message names the offending feature and the
\* violated threshold.
C15_PreconditionMessages ==
    (phase # "new" /\ PreconditionError) =>
       /\ ~bk.fitted
       /\ \E c \in Range(bk.variables) :
             /\ err.columns = <<c>>
             /\ err.threshold = ViolatedThreshold(c)

\* ---------------------------------------------- properties of constructors
Rejects(kind) == phase = "raised" /\ err.kind = kind /\ bk = NoBucketer
PositiveInteger(v) == v.type = "int" /\ v.num >= 1

\* C16: invalid option values are rejected by the constructor, before any
\* fit: an n_bins that is not an int or is < 1 raises AssertionError in the
\* three bucketers with n_bins; a remainder outside {"passthrough", "drop"}
\* raises AssertionError in every bucketer that takes it; in
\* OrdinalCategoricalBucketer a tol outside [0, 1] and a max_n_categories
\* that is not a positive integer raise ValueError; a
\* features_bucket_mapping that is neither dict nor FeaturesBucketMapping
\* raises TypeError in UserInputBucketer.  After a constructor that raised
\* there is no object to use.  (Each option is taken with the options checked
\* before it valid.)
C16_ConstructorRejects ==
    phase # "call" =>
       /\ (call.strategy \in SetBins /\ ~PositiveInteger(call.n_bins))
             => Rejects("AssertionError")
       /\ (call.strategy # "UserInput"
           /\ (call.strategy \in SetBins => PositiveInteger(call.n_bins))
           /\ ~RemainderAllowed(call.remainder))
             => Rejects("AssertionError")
       /\ (call.strategy = "OrdinalCategorical" /\ RemainderAllowed(call.remainder))
             => /\ (call.tol.num < 0 \/ call.tol.num > call.tol.den)
                      => Rejects("ValueError")
                /\ (call.max_n_categories.type # "NoneType"
                    /\ ~PositiveInteger(call.max_n_categories))
                      => Rejects("ValueError")
       /\ (call.strategy = "UserInput"
           /\ call.features_bucket_mapping.type \notin {"dict", "FeaturesBucketMapping"})
             => Rejects("TypeError")
       /\ phase = "raised" => bk = NoBucketer /\ out = NoFrame

\* ------------------------------------------- properties of the fitted state
\* The bucketer was built with default arguments.
DefaultArguments(b) ==
    [b EXCEPT !.variables = <<>>, !.fitted = FALSE,
              !.features_bucket_mapping_ = <<>>, !.has_tables = FALSE,
              !.bucket_tables_ = <<>>, !.binners = <<>>] = Bucketer(b.strategy)
NotFitted(e) == e.kind = "NotFittedError"

C17_Step ==
    /\ (phase = "new" /\ DefaultArguments(bk)) => ~CheckIsFitted(bk)
    /\ (BkCheckIsFitted /\ DefaultArguments(bk) /\ ~bk.fitted) => NotFitted(err')
    /\ (pc = "unfit" /\ (BpTransform \/ BpSaveYml \/ BpMapping \/ BpPrebucketTable))
          => NotFitted(err')
\* C17: each of the eight fitting bucketers built with default arguments is
\* unfit: its constructor sets no fitted attribute, and check_is_fitted raises
\* NotFittedError until fit has completed; transform, save_yml,
\* features_bucket_mapping_ and prebucket_table of a BucketingProcess raise
\* NotFittedError when fit was never called.
C17_UnfitUntilFit == [][C17_Step]_vars

\* ------------------------------------------- properties of UserInputBucketer
\* uib.transform(X) has returned, X_trans = BUCK.fit_transform(X, y) before it.
UserInputTransformed == phase = "transform" /\ uib_out # NoFrame

\* C18, as stated: for every fitting bucketer B fitted on (X, y), a
\* UserInputBucketer built from B.features_bucket_mapping_ and used without
\* fit transforms X to exactly the output of B.fit_transform(X, y).
C18_SameOutput == UserInputTransformed => uib_out = out

\* C18, amended: the UserInputBucketer transforms every column that B
\* bucketed to exactly that column of B.fit_transform(X, y); the outputs are
\* equal as a whole when B was built with remainder = "passthrough", and
\* with remainder = "drop" the UserInputBucketer also returns the other
\* columns of X, unchanged.
C18_SameBuckets ==
    UserInputTransformed =>
       /\ err = NoError
       /\ \A c \in Fitted : uib_out.data[c] = out.data[c]
       /\ bk.remainder = "passthrough" => uib_out = out
       /\ uib_out.columns = X.columns
       /\ \A c \in Range(X.columns) \ Fitted : uib_out.data[c] = X.data[c]
\* A bucketer built to drop the other columns has bucketed "a", nulls and a
\* special value among its rows, and the UserInputBucketer has transformed X.
C18_Witness ==
    /\ UserInputTransformed
    /\ bk.remainder = "drop" /\ Fitted = {"a"} /\ X.columns = <<"a", "b">>
    /\ out.columns = <<"a">>
    /\ \E i, j \in 1 .. NRows :
          /\ X.data["a"][i] = NaN /\ X.data["a"][j] \in SpecialValues(bk.features_bucket_mapping_["a"].specials)
          /\ uib_out.data["a"][j] = SpecialBase
          /\ uib_out.data["a"][i] # NaN

\* ---------------------------------------------------- properties of refitting
\* The second call of fit has returned or raised.
SecondFitDone ==
    first # None /\ (phase \in {"fit", "transform"} \/ pc \in {"fitted", "failed"})

\* C19: fitting is idempotent: after fit is called twice on the same
\* estimator with the same X and y (the delegated algorithm answering the
\* same), features_bucket_mapping_ and the bucket tables are the same as
\* after the first call, for every bucketer and for BucketingProcess, its
\* remapped bucketing-stage specials included.
C19_FitIdempotent ==
    SecondFitDone =>
       /\ bk.fitted = The(first).bk.fitted
       /\ bk.features_bucket_mapping_ = The(first).bk.features_bucket_mapping_
       /\ bk.bucket_tables_ = The(first).bk.bucket_tables_
       /\ PreMapping = PipelineMapping(The(first).bp.prebucketing_pipeline)
       /\ BucketMappingOfProcess = PipelineMapping(The(first).bp.bucketing_pipeline)
       /\ bp.prebucket_tables_ = The(first).bp.prebucket_tables_
       /\ bp.bucket_tables_ = The(first).bp.bucket_tables_
       /\ bp._bucketing_specials = The(first).bp._bucketing_specials
       /\ \A k \in DOMAIN bp.bucketing_pipeline :
             bp.bucketing_pipeline[k].specials
                = The(first).bp.bucketing_pipeline[k].specials
\* A process with two special groups on "a" has been fit twice, and both
\* groups were found again among the prebuckets.
C19_Witness ==
    /\ SecondFitDone /\ pc = "fitted"
    /\ "a" \in DOMAIN bp._bucketing_specials
    /\ Len(bp._bucketing_specials["a"]) = 2
    /\ "a" \in DOMAIN bp.bucket_tables_

\* ------------------------------------------ properties of _set_bucket_mapping
\* The mapping handed to the call of _set_bucket_mapping just made.
GivenMapping == call.features_bucket_mapping.maps

C20_Step ==
    BpSetBucketMapping =>
       /\ bp'.prebucketing_pipeline = bp.prebucketing_pipeline
       /\ bp'.prebucket_tables_ = bp.prebucket_tables_
       /\ Len(bp'.bucketing_pipeline) = 1
       /\ bp'.bucketing_pipeline[1].strategy = "UserInput"
       /\ bp'.bucketing_pipeline[1].features_bucket_mapping_ = GivenMapping'
       /\ DOMAIN bp'.bucket_tables_
             = Range(X_prebucketed_.columns) \cap DOMAIN GivenMapping'
       /\ \A column \in DOMAIN bp'.bucket_tables_ :
             /\ bp'.bucket_tables_[column]
                   = BuildBucketTable(X_prebucketed_.data[column],
                                      GivenMapping'[column])
             /\ bp'.summary_dict[column][2]
                   = Some(Cardinality(Range(TransformColumn(GivenMapping'[column],
                                                            X_prebucketed_.data[column]))))
\* C20: _set_bucket_mapping on a fitted process replaces only the bucketing
\* stage, with a UserInputBucketer holding the given mapping: the
\* prebucketing pipeline is not fit again, its mapping and prebucket_tables_
\* are unchanged; afterwards bucket_tables_ holds exactly one table for each
\* column of X_prebucketed that the new mapping covers, and the summary's
\* bucket count of each such column is the number of distinct bucket ids in
\* its new table.
C20_SetBucketMapping == [][C20_Step]_vars
\* A mapping that merges all buckets of "a" was set on a process that had
\* two prebuckets and two buckets for "a".
C20_Witness ==
    /\ pc = "edited"
    /\ "a" \in DOMAIN bp.bucket_tables_
    /\ bp.summary_dict["a"] = <<Some(2), Some(1)>>
    /\ first # None
    /\ Cardinality(DOMAIN The(first).bp.bucket_tables_["a"]) = 2

\* A column that holds nulls only.
NullColumn == [i \in 1 .. NRows |-> NaN]

\* ------------------------------------------ fitting again on another dataset
\* The dataframes with the same column "a" and other columns than X.
OtherFrames(frame) ==
    {Frame(frame.data["a"]), Frame2(frame.data["a"]),
     Frame(NullColumn), Frame2(NullColumn)} \ {frame}

\* BUCK.fit(X2, y) on the estimator that was fit on X: X2 has other columns.
BkFitOther ==
    /\ phase = "fit"
    /\ first = None
    /\ first' = Some([bk |-> bk, bp |-> bp])
    /\ \E X2 \in OtherFrames(X) :
          /\ X' = X2
          /\ \E r \in {Fit(bk, X2, y)} :
                /\ bk' = r.b
                /\ err' = FitError(r)
                /\ seen' = Handed(r)
    /\ UNCHANGED <<y, out, phase, bp, pc, X_prebucketed_, fbm, remapped,
                   call, uib_out, other, defaulted>>

\* The bucketers built without a list of variables.
DefaultVariablesBucketers ==
    {[Bucketer(s) EXCEPT !.remainder = r, !.missing_treatment = m] :
        s \in FittingBucketers, r \in {"passthrough", "drop"},
        m \in {Separate, MostFrequent}}

\* BUCK = bucketer() without variables, and a dataframe of one or two columns.
InitDatasets ==
    /\ bk \in DefaultVariablesBucketers
    /\ X \in {Frame(col) : col \in Columns} \cup {Frame2(col) : col \in Columns}
    /\ y = SomeTarget
    /\ out = NoFrame
    /\ err = NoError
    /\ phase = "new"
    /\ bp = NoProcess
    /\ pc = "none"
    /\ X_prebucketed_ = NoFrame
    /\ seen = NoFrame
    /\ fbm = None
    /\ remapped = None
    /\ uib_out = NoFrame
    /\ first = None
    /\ other = NoOther
    /\ defaulted = {}
    /\ call = NoCall

NextDatasets ==
    \/ BkFit
    \/ BkFitOther
    \/ BkTransform

SpecDatasets == InitDatasets /\ [][NextDatasets]_vars

\* C21: when the variables option is left at its default, each fit call
\* buckets all columns of the dataset passed to that call: the variables a
\* fit on X resolves are the columns of X, and a fit that returned has
\* bucketed exactly the columns of X; also the later fit on a dataset with
\* other columns than the first.
C21_FitsAllColumns ==
    phase = "fit" =>
       /\ Range(bk.variables) = Range(X.columns)
       /\ (err = NoError => Fitted = Range(X.columns))

\* --------------------------------------------- the trees of a DecisionTree
\* The values tried for min_bin_size: the default 0.05, and 0.3.
MinBinSizes == {[num |-> 5, den |-> 100], [num |-> 30, den |-> 100]}

\* DecisionTreeBucketer(max_n_bins=..., min_bin_size=..., specials=...).
TreeBucketers ==
    {[Bucketer("DecisionTree") EXCEPT !.max_n_bins = m, !.min_bin_size = s,
                                      !.specials = sp, !.oracle = o] :
        m \in 1 .. (MaxBins + 1), s \in MinBinSizes,
        sp \in {<<>>, OneSpecial, TwoSpecials}, o \in Oracles}

InitTree ==
    /\ bk \in TreeBucketers
    /\ X \in {Frame(col) : col \in Columns}
    /\ y = SomeTarget
    /\ out = NoFrame
    /\ err = NoError
    /\ phase = "new"
    /\ bp = NoProcess
    /\ pc = "none"
    /\ X_prebucketed_ = NoFrame
    /\ seen = NoFrame
    /\ fbm = None
    /\ remapped = None
    /\ uib_out = NoFrame
    /\ first = None
    /\ other = NoOther
    /\ defaulted = {}
    /\ call = NoCall

SpecTree == InitTree /\ [][NextBucketer]_vars

\* The rows of column c left after removing the special and the missing rows.
RowsLeft(c) ==
    {i \in DOMAIN X.data[c] :
        /\ X.data[c][i] # NaN
        /\ c \in DOMAIN bk.specials => X.data[c][i] \notin SpecialValues(bk.specials[c])}

\* The fraction p / q is min(min_bin_size / frac_left, 1/2) for the column c,
\* frac_left = |RowsLeft(c)| / NRows.
IsRescaled(p, q, c) ==
    LET num == bk.min_bin_size.num * NRows
        den == bk.min_bin_size.den * Cardinality(RowsLeft(c))
    IN IF 2 * num <= den THEN p * den = q * num ELSE 2 * p = q

\* The fit was aborted by its check of max_n_bins against the special groups
\* of a feature.
TreeCheckRaised == err.kind = "ValueError" /\ err.threshold # 0

\* C22: DecisionTreeBucketer fits a tree for a feature exactly when at least
\* one row is neither special nor missing; every tree it fits gets
\* max_leaf_nodes = max_n_bins - (number of special groups of the feature),
\* which is >= 2, and min_samples_leaf = min(min_bin_size / frac_left, 0.5);
\* when no row is left, no tree is fit and the feature's mapping has zero
\* boundaries.  (Stated of the fits that the check of max_n_bins against the
\* special groups did not abort.)
C22_Trees ==
    (phase # "new" /\ ~TreeCheckRaised) =>
        \A c \in Range(X.columns) :
           /\ c \in DOMAIN bk.binners <=> RowsLeft(c) # {}
           /\ c \in DOMAIN bk.binners =>
                 /\ bk.binners[c].max_leaf_nodes = bk.max_n_bins - SpecialGroups(c)
                 /\ bk.binners[c].max_leaf_nodes >= 2
                 /\ IsRescaled(bk.binners[c].min_samples_leaf.num,
                               bk.binners[c].min_samples_leaf.den, c)
           /\ RowsLeft(c) = {} =>
                 /\ bk.fitted
                 /\ Len(bk.features_bucket_mapping_[c].map) = 0

\* --------------------------------------- the resolution of "most_frequent"
\* The bucket table of the first pass for column c: the table of the fitted
\* mapping bm without its resolved missing bucket.
FirstPassTable(bm, c) ==
    BuildBucketTable(X.data[c], [bm EXCEPT !.missing_bucket = None])

\* C23: with missing_treatment = "most_frequent", for every feature whose
\* first bucket table was built, the resolution completes (also when that
\* table has a single row); the resolved missing bucket is the bucket_id of
\* the highest-Count row of the first-pass table when that row is not the
\* Missing row and of the second-highest row otherwise; it is a realized
\* bucket other than the Missing bucket -1; and the bucket table is the one
\* of the mapping rebuilt with this id.
C23_Resolution ==
    (phase # "new" /\ bk.missing_treatment.kind = "most_frequent") =>
        \A c \in DOMAIN bk.bucket_tables_ :
           /\ c \in Fitted
           /\ \E bm \in {bk.features_bucket_mapping_[c]} :
              \E first_table \in {FirstPassTable(bm, c)} :
              \E sorted \in {TableByCount(first_table, bk.tie)} :
                 /\ first_table[sorted[1]].label = MissingLabel => Len(sorted) >= 2
                 /\ bm.missing_bucket =
                       {IF first_table[sorted[1]].label # MissingLabel
                        THEN sorted[1] ELSE sorted[2]}
                 /\ The(bm.missing_bucket) \in DOMAIN first_table \ {MissingId}
                 /\ bk.bucket_tables_[c] = BuildBucketTable(X.data[c], bm)

\* ------------------------------------------- what the algorithms are given
\* C24: for every strategy and every fitted feature, the values handed to the
\* strategy's split, cluster, tree, quantile or distinct-value step contain no
\* value of a declared special group of that feature and no null; the target
\* handed to a supervised algorithm is filtered to the same rows.
C24_OnlyNormalRows ==
    phase # "new" =>
        \A c \in DOMAIN seen.data :
           /\ \A i \in DOMAIN seen.data[c] :
                 /\ seen.data[c][i] # NaN
                 /\ c \in DOMAIN bk.specials =>
                       seen.data[c][i] \notin SpecialValues(bk.specials[c])
           /\ seen.target[c] # <<>> =>
                 /\ seen.data[c] = ValuesAt(X.data[c], RowsLeft(c))
                 /\ seen.target[c] = ValuesAt(y, RowsLeft(c))

\* ------------------------------------------------ the boundaries of a fit
\* C25: every numerical BucketMapping produced by any strategy's fit has a
\* boundary sequence that is finite (it holds no NaN), strictly increasing
\* and free of duplicates, for every input column.
C25_Boundaries ==
    \A c \in Fitted :
        \E bm \in {bk.features_bucket_mapping_[c]} :
            bm.type = "numerical" =>
               /\ ~bm.nan_in_map
               /\ \A i, j \in DOMAIN bm.map : i < j => bm.map[i] < bm.map[j]

\* ------------------------------------------- the ranking of categories
\* OrdinalCategoricalBucketer(tol=..., max_n_categories=...,
\* encoding_method=..., specials=...).
OrdinalBucketers ==
    {[Bucketer("OrdinalCategorical") EXCEPT !.max_n_categories = m, !.tol = t,
                                            !.encoding_method = e,
                                            !.specials = sp, !.tie = o] :
        m \in {None} \cup {Some(n) : n \in 0 .. (MaxBins - 1)},
        t \in {[num |-> 5, den |-> 100], [num |-> 1, den |-> 2]},
        e \in {"frequency", "ordered"}, sp \in {<<>>, OneSpecial}, o \in Ties}

InitOrdinal ==
    /\ bk \in OrdinalBucketers
    /\ X \in {Frame(col) : col \in Columns}
    /\ y \in Targets
    /\ out = NoFrame
    /\ err = NoError
    /\ phase = "new"
    /\ bp = NoProcess
    /\ pc = "none"
    /\ X_prebucketed_ = NoFrame
    /\ seen = NoFrame
    /\ fbm = None
    /\ remapped = None
    /\ uib_out = NoFrame
    /\ first = None
    /\ other = NoOther
    /\ defaulted = {}
    /\ call = NoCall

SpecOrdinal == InitOrdinal /\ [][NextBucketer]_vars

\* The number of rows of column c left for the fit that hold v, and the
\* number of those with target 1.
Frequency(c, v) == Cardinality({i \in RowsLeft(c) : X.data[c][i] = v})
Events(c, v) == Cardinality({i \in RowsLeft(c) : X.data[c][i] = v /\ y[i] = 1})
\* v is frequent: its share of the rows left is at least tol.
Frequent(c, v) == Frequency(c, v) * bk.tol.den >= bk.tol.num * Cardinality(RowsLeft(c))
\* v ranks strictly before w under the encoding method.
RanksBefore(c, v, w) ==
    IF bk.encoding_method = "ordered"
    THEN Events(c, v) * Frequency(c, w) < Events(c, w) * Frequency(c, v)
    ELSE Frequency(c, v) > Frequency(c, w)

\* C26: OrdinalCategoricalBucketer ranks the normal categories by frequency
\* descending ("frequency") or by mean target ascending ("ordered"), keeps at
\* most max_n_categories categories that are the most frequent ones, drops
\* every category whose frequency is below tol, and gives the remaining
\* categories the consecutive ids 0..m-1 in rank order; every other category
\* is absent from the map and transforms to -2.
C26_OrdinalRanking ==
    \A c \in Fitted :
        \E bm \in {bk.features_bucket_mapping_[c]},
           cats \in {{X.data[c][i] : i \in RowsLeft(c)}} :
        \E kept \in {DOMAIN bm.cmap} :
           /\ kept \subseteq cats
           /\ {bm.cmap[v] : v \in kept} = 0 .. (Cardinality(kept) - 1)
           /\ \A v, w \in kept : bm.cmap[v] < bm.cmap[w] => ~RanksBefore(c, w, v)
           /\ bk.max_n_categories # None =>
                 Cardinality(kept) <= The(bk.max_n_categories)
           /\ \A v \in kept : Frequent(c, v)
           /\ \A v \in kept, w \in cats \ kept : Frequency(c, v) >= Frequency(c, w)
           /\ \A w \in cats \ kept :
                 /\ \/ ~Frequent(c, w)
                    \/ /\ bk.max_n_categories # None
                       /\ Cardinality(kept) = The(bk.max_n_categories)
                 /\ TransformValue(bm, w) = OtherId

\* ------------------------------------------- calls after a fit that raised
\* The error a stage raises when asked to transform, or for its mapping,
\* with a step that was never fit: the step's own check_is_fitted raises
\* NotFittedError, and a step that holds bucket tables but no mapping fails
\* on the missing attribute.
StageError(steps) ==
    IF PipelineFitted(steps) THEN "none"
    ELSE The({IF CheckIsFitted(steps[k]) THEN "AttributeError" ELSE "NotFittedError" :
                k \in {Min({j \in DOMAIN steps : ~steps[j].fitted})}})

\* transform(X) on a process whose fit raised.
BpTransformAfterError ==
    /\ pc = "failed"
    /\ IF ~BpIsFitted
       THEN /\ err' = Error("NotFittedError", <<>>)
            /\ UNCHANGED out
       ELSE IF StageError(bp.prebucketing_pipeline) # "none"
       THEN /\ err' = Error(StageError(bp.prebucketing_pipeline), <<>>)
            /\ UNCHANGED out
       ELSE IF StageError(bp.bucketing_pipeline) # "none"
       THEN /\ err' = Error(StageError(bp.bucketing_pipeline), <<>>)
            /\ UNCHANGED out
       ELSE /\ out' = PipelineTransform(bp.bucketing_pipeline,
                          PipelineTransform(bp.prebucketing_pipeline, X))
            /\ err' = NoError
    /\ UNCHANGED <<bk, X, y, phase, bp, pc, X_prebucketed_, seen, fbm, remapped, call, uib_out, first, other, defaulted>>

\* features_bucket_mapping_, or save_yml(fout) which reads it, on a process
\* whose fit raised.  Past the assert on the two lengths, merge looks every
\* prebucketed feature up in the mapping of the bucketing stage.
BpMappingAfterError ==
    /\ pc = "failed"
    /\ IF ~BpIsFitted
       THEN /\ err' = Error("NotFittedError", <<>>)
            /\ UNCHANGED fbm
       ELSE IF StageError(bp.prebucketing_pipeline) # "none"
       THEN /\ err' = Error(StageError(bp.prebucketing_pipeline), <<>>)
            /\ UNCHANGED fbm
       ELSE IF StageError(bp.bucketing_pipeline) # "none"
       THEN /\ err' = Error(StageError(bp.bucketing_pipeline), <<>>)
            /\ UNCHANGED fbm
       ELSE \E pre \in {PipelineMapping(bp.prebucketing_pipeline)},
               buck \in {PipelineMapping(bp.bucketing_pipeline)} :
               IF Cardinality(DOMAIN pre) # Cardinality(DOMAIN buck)
               THEN /\ err' = Error("AssertionError", <<>>)
                    /\ UNCHANGED fbm
               ELSE IF DOMAIN pre # DOMAIN buck
               THEN /\ err' = Error("KeyError", <<>>)
                    /\ UNCHANGED fbm
               ELSE /\ fbm' = Some(MergeFeaturesBucketMapping(pre, buck))
                    /\ err' = NoError
    /\ UNCHANGED <<bk, X, y, out, phase, bp, pc, X_prebucketed_, seen, remapped, call, uib_out, first, other, defaulted>>

\* bucketing_process = BucketingProcess(...), not fit yet.
InitAfterError == InitProcess /\ pc = "unfit"

NextAfterError ==
    \/ BpFitPrebucket
    \/ BpRemapSpecials
    \/ BpFitBucket
    \/ BpCheckCoverage
    \/ BpTransformAfterError
    \/ BpMappingAfterError

SpecAfterError == InitAfterError /\ [][NextAfterError]_vars

\* C27: after a fit call of a BucketingProcess that raised, with no fit that
\* succeeded before it, a call of transform, features_bucket_mapping_ or
\* save_yml raises NotFittedError: no call answers from the stages the
\* failed fit left behind.
C27_FailedFitNotFitted ==
    [][(pc = "failed" /\ pc' = "failed") => err'.kind = "NotFittedError"]_vars

\* ------------------------------------------ a fitted process, then edited
\* _set_bucket_mapping called again on a process it has edited.
BpSetBucketMappingAgain ==
    /\ pc = "edited"
    /\ SetBucketMapping

\* transform(X) on an edited process: the UserInputBucketer reads every
\* column of its mapping from the prebucketed X, and fails on one that X
\* does not have.
BpTransformEdited ==
    /\ pc = "edited"
    /\ IF ~(DOMAIN PipelineMapping(bp.bucketing_pipeline) \subseteq Range(X.columns))
       THEN /\ err' = Error("KeyError", <<>>)
            /\ UNCHANGED <<bk, X, y, out, phase, bp, pc, X_prebucketed_, seen, fbm,
                           remapped, call, uib_out, first, other, defaulted>>
       ELSE ProcessTransform

\* features_bucket_mapping_ read on an edited process: past the assert on
\* the two lengths, merge looks every prebucketed feature up in the mapping
\* of the bucketing stage.
BpMappingEdited ==
    /\ pc = "edited"
    /\ \E pre \in {DOMAIN PipelineMapping(bp.prebucketing_pipeline)},
          buck \in {DOMAIN PipelineMapping(bp.bucketing_pipeline)} :
          IF Cardinality(pre) = Cardinality(buck) /\ pre # buck
          THEN /\ err' = Error("KeyError", <<>>)
               /\ UNCHANGED <<bk, X, y, out, phase, bp, pc, X_prebucketed_, seen,
                              fbm, remapped, call, uib_out, first, other, defaulted>>
          ELSE ProcessMapping

\* bucketing_process = BucketingProcess(...), not fit yet.
InitEdited == InitLife /\ pc = "unfit"

NextEdited ==
    \/ BpFitPrebucket
    \/ BpRemapSpecials
    \/ BpFitBucket
    \/ BpCheckCoverage
    \/ BpTransform
    \/ BpMapping
    \/ BpSetBucketMapping
    \/ BpSetBucketMappingAgain
    \/ BpTransformEdited
    \/ BpMappingEdited

SpecEdited == InitEdited /\ [][NextEdited]_vars

\* The columns the prebucketing stage and the bucketing stage cover.
PrebucketedColumns == DOMAIN PipelineMapping(bp.prebucketing_pipeline)
BucketedColumns == DOMAIN PipelineMapping(bp.bucketing_pipeline)

\* C28: after a fit that returned and any calls of _set_bucket_mapping and
\* transform since, the two stages cover the same columns, reading
\* features_bucket_mapping_ has not failed its length assertion, and every
\* column of bucket_tables_ has an entry in the summary.
C28_SameColumns ==
    pc \in {"fitted", "edited"} =>
       /\ PrebucketedColumns = BucketedColumns
       /\ err.kind # "AssertionError"
       /\ DOMAIN bp.bucket_tables_ \subseteq DOMAIN bp.summary_dict

\* ------------------------------------------------ two BucketingProcesses
\* The default arguments of BucketingProcess.__init__, evaluated once, when
\* the class is defined: every call that omits the argument is handed this
\* same pipeline object.
DefaultPrebucketingPipeline ==
    <<[Bucketer("DecisionTree") EXCEPT !.max_n_bins = 50,
                                       !.min_bin_size = [num |-> 2, den |-> 100],
                                       !.oracle = {1}]>>
DefaultBucketingPipeline ==
    <<[Bucketer("Optimal") EXCEPT !.max_n_bins = 6,
                                  !.min_bin_size = [num |-> 5, den |-> 100],
                                  !.oracle = {1}]>>

\* The two default pipeline objects as they are now: to_skorecard_pipeline
\* wraps the steps it is given, so an object built on the defaults reads and
\* writes the steps of the default pipelines themselves.
DefaultPipelines ==
    IF "bp" \in defaulted
    THEN [pre |-> bp.prebucketing_pipeline, buck |-> bp.bucketing_pipeline]
    ELSE IF "other" \in defaulted
    THEN [pre |-> other.bp.prebucketing_pipeline, buck |-> other.bp.bucketing_pipeline]
    ELSE [pre |-> DefaultPrebucketingPipeline, buck |-> DefaultBucketingPipeline]

\* The pipelines the caller builds and passes to one constructor call.
ExplicitPipelines ==
    [pre |-> <<[Bucketer("EqualWidth") EXCEPT !.n_bins = 2]>>,
     buck |-> <<Bucketer("AsIsNumerical")>>]

\* The loop of __init__ over the prebucketing steps stops at the first step
\* that has specials already: the index of that step, or one past the last.
StopsAt(steps) ==
    Min({k \in DOMAIN steps : steps[k].specials # <<>>} \cup {Len(steps) + 1})

\* The prebucketing steps after that loop: the steps before the stop have
\* been assigned the specials of the call.
AssignedUntilStop(steps, specials) ==
    [k \in DOMAIN steps |->
        IF k < StopsAt(steps) THEN [steps[k] EXCEPT !.specials = specials]
        ELSE steps[k]]

\* The pipelines of the second object, read through the objects it shares.
OtherPipelines ==
    IF {"bp", "other"} \subseteq defaulted
    THEN [pre |-> bp.prebucketing_pipeline, buck |-> bp.bucketing_pipeline]
    ELSE [pre |-> other.bp.prebucketing_pipeline, buck |-> other.bp.bucketing_pipeline]

\* other = BucketingProcess(specials=...), with the default pipelines or with
\* pipelines of its own, while bp exists.
BpNewOther ==
    /\ pc \in {"unfit", "fitted", "failed"}
    /\ ~other.made
    /\ \E specials \in {<<>>, OneSpecial, TwoSpecials}, omitted \in BOOLEAN :
          \E given \in {IF omitted THEN DefaultPipelines ELSE ExplicitPipelines} :
             \E steps \in {AssignedUntilStop(given.pre, specials)} :
                /\ IF StopsAt(given.pre) <= Len(given.pre)
                   THEN /\ other' = Constructed(TRUE, NoProcess, Error("ValueError", <<>>))
                        /\ UNCHANGED defaulted
                   ELSE /\ other' = Constructed(TRUE,
                                       BucketingProcess(given.pre, given.buck, specials),
                                       NoError)
                        /\ defaulted' = IF omitted THEN defaulted \cup {"other"}
                                        ELSE defaulted
                /\ bp' = IF omitted /\ "bp" \in defaulted
                         THEN [bp EXCEPT !.prebucketing_pipeline = steps]
                         ELSE bp
    /\ UNCHANGED <<bk, X, y, out, err, phase, pc, X_prebucketed_, seen, fbm, remapped,
                   call, uib_out, first>>

\* bp = BucketingProcess(specials=...) on the default pipelines, or a
\* process built on pipelines of its own; no second object yet.
InitInstances ==
    /\ \/ /\ \E specials \in {<<>>, OneSpecial, TwoSpecials} :
                bp = BucketingProcess(DefaultPrebucketingPipeline,
                                      DefaultBucketingPipeline, specials)
          /\ X \in {Frame(col) : col \in SortedColumns}
          /\ defaulted = {"bp"}
       \/ /\ \E specials \in {<<>>, OneSpecial} :
                bp = BucketingProcess(ExplicitPipelines.pre, ExplicitPipelines.buck,
                                      specials)
          /\ X \in {Frame(col) : col \in SortedColumns}
          /\ defaulted = {}
    /\ pc = "unfit"
    /\ other = NoOther
    /\ bk = NoBucketer
    /\ phase = "none"
    /\ y = SomeTarget
    /\ out = NoFrame
    /\ err = NoError
    /\ X_prebucketed_ = NoFrame
    /\ seen = NoFrame
    /\ fbm = None
    /\ remapped = None
    /\ uib_out = NoFrame
    /\ first = None
    /\ call = NoCall

NextInstances ==
    \/ BpFitPrebucket
    \/ BpRemapSpecials
    \/ BpFitBucket
    \/ BpCheckCoverage
    \/ BpNewOther

SpecInstances == InitInstances /\ [][NextInstances]_vars

\* One step, seen from the object it is not about: constructing other
\* leaves bp as it was and returns an object; a step of bp's fit leaves the
\* pipelines and the specials of other as they were.
C29_Step ==
    /\ (~other.made /\ other'.made) =>
          /\ bp' = bp
          /\ other'.err = NoError
    /\ (other.made /\ other.err = NoError /\ pc' # pc) =>
          /\ OtherPipelines' = OtherPipelines
          /\ other'.bp.specials = other.bp.specials

\* C29: BucketingProcess objects are independent.  Constructing a second
\* object, with any specials and with the default pipelines or its own,
\* changes nothing of the first and does not raise; fitting the first
\* changes neither the specials nor the pipelines of the second.
C29_Independent == [][C29_Step]_vars

\* C30: whenever a bucketer has both bucket_tables_ and
\* features_bucket_mapping_, after any fit calls that returned or raised,
\* the keys of bucket_tables_ are the features of features_bucket_mapping_.
C30_TablesMatchMapping ==
    (bk.has_tables /\ bk.fitted) =>
        DOMAIN bk.bucket_tables_ = DOMAIN bk.features_bucket_mapping_
====
